---- MODULE Spec2Model ----
(***************************************************************************)
(* Model of the Hylo exchange context (hylo-core exchange_context.rs) and  *)
(* of the quote functions built on it (hylo-jupiter quote.rs).             *)
(*                                                                         *)
(* Fixed-point quantities are modelled by their `bits` (a natural number); *)
(* the scale of a quantity is the scale of its Rust type.  The numbers of  *)
(* fractional digits and the integer width are reduced (DigitsN9, ...,     *)
(* Width) so that every product stays inside the model checker's integers; *)
(* every operator is written against One9, One8, One6, One4 and U64Max and *)
(* never against a literal scale.                                          *)
(*                                                                         *)
(* A fallible Rust value (Result / Option) is the record                   *)
(*   [ok |-> TRUE,  val |-> v, err |-> "none"]   or                        *)
(*   [ok |-> FALSE, val |-> 0, err |-> kind].                              *)
(***************************************************************************)
EXTENDS Integers, Sequences, FiniteSets, TLC

VARIABLES acct, ctx, out

vars == <<acct, ctx, out>>

-----------------------------------------------------------------------------
(* Bounds of the model.                                                    *)

\* fractional digits of the scales N9 (collateral, ratios, NAV), N8 (prices),
\* N6 (token amounts) and N4 (fee rates), reduced
DigitsN9 == 2
DigitsN8 == 1
DigitsN6 == 1
DigitsN4 == 1
\* bits of the unsigned integer under a fixed-point quantity, reduced
Width == 12
\* largest total collateral, token supply and operation amount (in bits)
MaxTotalSol == 10
MaxSupply == 5
MaxAmount == 4

One9 == 10 ^ DigitsN9
One8 == 10 ^ DigitsN8
One6 == 10 ^ DigitsN6
One4 == 10 ^ DigitsN4
U64Max == 2 ^ Width - 1

-----------------------------------------------------------------------------
(* Results.                                                                *)

Ok(v) == [ok |-> TRUE, val |-> v, err |-> "none"]
Err(e) == [ok |-> FALSE, val |-> 0, err |-> e]

-----------------------------------------------------------------------------
(* Fixed-point arithmetic on bits: every operation is checked.             *)

CeilDiv(a, b) == (a + b - 1) \div b

\* UFix64::checked_add
checked_add(a, b) == IF a + b <= U64Max THEN Ok(a + b) ELSE Err("ArithmeticOverflow")

\* UFix64::checked_sub
checked_sub(a, b) == IF a >= b THEN Ok(a - b) ELSE Err("ArithmeticUnderflow")

\* UFix64::mul_div_floor: a * b / c, rounded down, in a wider intermediate
mul_div_floor(a, b, c) ==
  IF c = 0 THEN Err("DivisionByZero")
  ELSE IF (a * b) \div c > U64Max THEN Err("ArithmeticOverflow")
  ELSE Ok((a * b) \div c)

\* UFix64::mul_div_ceil: a * b / c, rounded up
mul_div_ceil(a, b, c) ==
  IF c = 0 THEN Err("DivisionByZero")
  ELSE IF CeilDiv(a * b, c) > U64Max THEN Err("ArithmeticOverflow")
  ELSE Ok(CeilDiv(a * b, c))

\* scale change of a token amount (N6) to the collateral scale (N9)
n6_to_n9(a) ==
  IF a * (One9 \div One6) <= U64Max
  THEN Ok(a * (One9 \div One6)) ELSE Err("ArithmeticOverflow")

\* scale change of an N9 quantity to a token amount (N6): truncates
n9_to_n6(a) == a \div (One9 \div One6)

-----------------------------------------------------------------------------
(* Stability modes, ordered Stable < Decay < Depeg.                        *)

Stable == 0
Decay == 1
Depeg == 2
Modes == {Stable, Decay, Depeg}

\* StabilityController::stability_mode
stability_mode(sc, ratio) ==
  IF ratio >= sc.threshold_1 THEN Ok(Stable)
  ELSE IF ratio >= sc.threshold_2 THEN Ok(Decay)
  ELSE Ok(Depeg)

\* StabilityController::min_stability_threshold
min_stability_threshold(sc) == sc.threshold_2

\* StabilityController::next_stability_threshold
next_stability_threshold(sc, mode) ==
  IF mode = Stable THEN Ok(sc.threshold_1)
  ELSE IF mode = Decay THEN Ok(sc.threshold_2)
  ELSE Err("NoNextStabilityThreshold")

-----------------------------------------------------------------------------
(* Aggregate collateral cache and price oracle.                            *)

\* TotalSolCache::get_validated
get_validated(cache, epoch) ==
  IF cache.epoch = epoch THEN Ok(cache.total_sol) ELSE Err("StaleCollateralCache")

\* pyth::query_pyth_price: staleness, then confidence, then the range
query_pyth_price(clock, feed, config) ==
  IF feed.publish_time + config.interval_secs < clock.unix_timestamp
  THEN Err("StalePrice")
  ELSE IF feed.price = 0 \/ feed.conf > feed.price
  THEN Err("ConfidenceExceeded")
  ELSE IF (feed.conf * One8) \div feed.price > config.conf_tolerance
  THEN Err("ConfidenceExceeded")
  ELSE Ok([lower |-> feed.price - feed.conf, upper |-> feed.price + feed.conf])

-----------------------------------------------------------------------------
(* Exchange math.                                                          *)

\* exchange_math::total_value_locked: total_sol (N9) * price (N8), at N9
math_total_value_locked(total_sol, price) == mul_div_floor(total_sol, price, One8)

\* exchange_math::collateral_ratio: TVL / stablecoin supply, at N9
math_collateral_ratio(total_sol, price, supply) ==
  LET tvl == math_total_value_locked(total_sol, price)
      s9 == n6_to_n9(supply)
  IN  IF ~tvl.ok THEN tvl
      ELSE IF ~s9.ok THEN s9
      ELSE mul_div_floor(tvl.val, One9, s9.val)

\* exchange_math::depeg_stablecoin_nav: TVL / stablecoin supply, at N9
depeg_stablecoin_nav(total_sol, price, supply) ==
  math_collateral_ratio(total_sol, price, supply)

\* exchange_math::next_levercoin_mint_nav / next_levercoin_redeem_nav:
\* (TVL at `price` - stablecoin supply * stablecoin NAV) / levercoin supply;
\* an Option, None on any failure
levercoin_nav_at(total_sol, price, stablecoin_supply, stablecoin_nav, levercoin_supply) ==
  LET tvl == math_total_value_locked(total_sol, price)
      s9 == n6_to_n9(stablecoin_supply)
      l9 == n6_to_n9(levercoin_supply)
      liab == IF s9.ok THEN mul_div_floor(s9.val, stablecoin_nav, One9) ELSE s9
      free == IF tvl.ok /\ liab.ok THEN checked_sub(tvl.val, liab.val) ELSE Err("None")
  IN  IF free.ok /\ l9.ok /\ l9.val > 0 /\ mul_div_floor(free.val, One9, l9.val).ok
      THEN mul_div_floor(free.val, One9, l9.val)
      ELSE Err("None")

\* exchange_math::next_levercoin_mint_nav: priced at the upper bound
next_levercoin_mint_nav(total_sol, price, stablecoin_supply, stablecoin_nav, levercoin_supply) ==
  levercoin_nav_at(total_sol, price.upper, stablecoin_supply, stablecoin_nav, levercoin_supply)

\* exchange_math::next_levercoin_redeem_nav: priced at the lower bound
next_levercoin_redeem_nav(total_sol, price, stablecoin_supply, stablecoin_nav, levercoin_supply) ==
  levercoin_nav_at(total_sol, price.lower, stablecoin_supply, stablecoin_nav, levercoin_supply)

\* exchange_math::max_mintable_stablecoin:
\* (TVL - threshold * supply) / (threshold - 1), rounded down to a token amount
math_max_mintable_stablecoin(threshold, total_sol, price, supply) ==
  LET tvl == math_total_value_locked(total_sol, price)
      s9 == n6_to_n9(supply)
      need == IF s9.ok THEN mul_div_ceil(s9.val, threshold, One9) ELSE s9
      num == IF tvl.ok /\ need.ok THEN checked_sub(tvl.val, need.val) ELSE Err("none")
      den == checked_sub(threshold, One9)
  IN  IF ~tvl.ok THEN tvl
      ELSE IF ~need.ok THEN need
      ELSE IF ~num.ok THEN num
      ELSE IF ~den.ok THEN den
      ELSE IF ~mul_div_floor(num.val, One9, den.val).ok
      THEN mul_div_floor(num.val, One9, den.val)
      ELSE Ok(n9_to_n6(mul_div_floor(num.val, One9, den.val).val))

\* exchange_math::max_swappable_stablecoin:
\* TVL / threshold - supply, rounded down to a token amount
math_max_swappable_stablecoin(threshold, tvl, supply) ==
  LET cap == mul_div_floor(tvl, One9, threshold)
  IN  IF ~cap.ok THEN cap
      ELSE checked_sub(n9_to_n6(cap.val), supply)

\* stability_pool_math::stability_pool_cap: the stablecoin leg at its NAV plus
\* the levercoin leg at its NAV, as a token amount
math_stability_pool_cap(stablecoin_nav, stablecoin_in_pool, levercoin_nav, levercoin_in_pool) ==
  LET stable_cap == mul_div_floor(stablecoin_in_pool, stablecoin_nav, One9)
      lever_cap == mul_div_floor(levercoin_in_pool, levercoin_nav, One9)
  IN  IF ~stable_cap.ok THEN stable_cap
      ELSE IF ~lever_cap.ok THEN lever_cap
      ELSE checked_add(stable_cap.val, lever_cap.val)

-----------------------------------------------------------------------------
(* Fee controller.                                                         *)

\* FeeExtract::new: the fee is amount * rate rounded up, the rest remains
FeeExtract_new(fee, amount_in) ==
  LET fees == mul_div_ceil(amount_in, fee, One4)
      rest == IF fees.ok THEN checked_sub(amount_in, fees.val) ELSE fees
  IN  IF fees.ok /\ rest.ok
      THEN Ok([fees_extracted |-> fees.val, amount_remaining |-> rest.val])
      ELSE Err("FeeExtraction")

\* StablecoinFees / LevercoinFees: a rate per (operation, mode)
fee_for(table, mode) == Ok(table[mode])

-----------------------------------------------------------------------------
(* LST price and conversions.                                              *)

\* LstSolPrice::get_epoch_price
get_epoch_price(lst_sol_price, epoch) ==
  IF lst_sol_price.epoch = epoch THEN Ok(lst_sol_price.price) ELSE Err("LstSolPriceEpoch")

\* LstSolPrice::convert_sol
convert_sol(lst_sol_price, amount_lst, epoch) ==
  LET p == get_epoch_price(lst_sol_price, epoch)
  IN  IF ~p.ok THEN p ELSE mul_div_floor(amount_lst, p.val, One9)

\* Conversion::new
Conversion_new(usd_sol_price, lst_sol) == [usd_sol_price |-> usd_sol_price, lst_sol |-> lst_sol]

\* Conversion::lst_to_token: LST -> SOL -> USD at the lower price -> tokens at nav
lst_to_token(conv, amount_lst, nav) ==
  LET sol == mul_div_floor(amount_lst, conv.lst_sol, One9)
      usd == IF sol.ok THEN mul_div_floor(sol.val, conv.usd_sol_price.lower, One8) ELSE sol
      tok == IF usd.ok THEN mul_div_floor(usd.val, One9, nav) ELSE usd
  IN  IF tok.ok THEN Ok(n9_to_n6(tok.val)) ELSE Err("LstToToken")

\* Conversion::token_to_lst: tokens at nav -> USD -> SOL at the upper price -> LST
token_to_lst(conv, amount_token, nav) ==
  LET t9 == n6_to_n9(amount_token)
      usd == IF t9.ok THEN mul_div_floor(t9.val, nav, One9) ELSE t9
      sol == IF usd.ok THEN mul_div_floor(usd.val, One8, conv.usd_sol_price.upper) ELSE usd
      lst == IF sol.ok THEN mul_div_floor(sol.val, One9, conv.lst_sol) ELSE sol
  IN  IF lst.ok THEN lst ELSE Err("TokenToLst")

\* SwapConversion::new
SwapConversion_new(stablecoin_nav, levercoin_nav) ==
  [stablecoin_nav |-> stablecoin_nav, levercoin_nav |-> levercoin_nav]

\* SwapConversion::lever_to_stable: levercoin at its lower NAV
lever_to_stable(sc, amount_lever) ==
  LET r == mul_div_floor(amount_lever, sc.levercoin_nav.lower, sc.stablecoin_nav)
  IN  IF r.ok THEN r ELSE Err("LeverToStable")

\* SwapConversion::stable_to_lever: levercoin at its upper NAV
stable_to_lever(sc, amount_stable) ==
  LET r == mul_div_floor(amount_stable, sc.stablecoin_nav, sc.levercoin_nav.upper)
  IN  IF r.ok THEN r ELSE Err("StableToLever")

-----------------------------------------------------------------------------
(* ExchangeContext.                                                        *)

\* Option<&Mint> of the levercoin mint
None == Err("None")

\* mutant: the collateral ratio is taken against the levercoin supply
load_from_levercoin_supply(total_sol, sol_usd_price, clock, stability_controller, stablecoin_fees, levercoin_fees, stablecoin_mint, levercoin_mint) ==
  LET stablecoin_supply == stablecoin_mint.supply
      levercoin_supply == IF levercoin_mint.ok THEN Ok(levercoin_mint.val.supply) ELSE None
      cr == math_collateral_ratio(total_sol.val, sol_usd_price.val.lower,
                                  IF levercoin_mint.ok THEN levercoin_mint.val.supply
                                  ELSE stablecoin_supply)
      mode == stability_mode(stability_controller, cr.val)
  IN  IF ~total_sol.ok THEN total_sol
      ELSE IF ~sol_usd_price.ok THEN sol_usd_price
      ELSE IF ~cr.ok THEN cr
      ELSE IF ~mode.ok THEN mode
      ELSE Ok([clock |-> clock,
               total_sol |-> total_sol.val,
               sol_usd_price |-> sol_usd_price.val,
               stablecoin_supply |-> stablecoin_supply,
               levercoin_supply |-> levercoin_supply,
               collateral_ratio |-> cr.val,
               stability_controller |-> stability_controller,
               stability_mode |-> mode.val,
               stablecoin_fees |-> stablecoin_fees,
               levercoin_fees |-> levercoin_fees])

\* mutant: the collateral ratio of the context is computed at the upper price
load_from_upper(total_sol, sol_usd_price, clock, stability_controller, stablecoin_fees, levercoin_fees, stablecoin_mint, levercoin_mint) ==
  LET stablecoin_supply == stablecoin_mint.supply
      levercoin_supply == IF levercoin_mint.ok THEN Ok(levercoin_mint.val.supply) ELSE None
      cr == math_collateral_ratio(total_sol.val, sol_usd_price.val.upper, stablecoin_supply)
      mode == stability_mode(stability_controller, cr.val)
  IN  IF ~total_sol.ok THEN total_sol
      ELSE IF ~sol_usd_price.ok THEN sol_usd_price
      ELSE IF ~cr.ok THEN cr
      ELSE IF ~mode.ok THEN mode
      ELSE Ok([clock |-> clock,
               total_sol |-> total_sol.val,
               sol_usd_price |-> sol_usd_price.val,
               stablecoin_supply |-> stablecoin_supply,
               levercoin_supply |-> levercoin_supply,
               collateral_ratio |-> cr.val,
               stability_controller |-> stability_controller,
               stability_mode |-> mode.val,
               stablecoin_fees |-> stablecoin_fees,
               levercoin_fees |-> levercoin_fees])

\* ExchangeContext::load, after its two validations: the first failure in the
\* order cache, oracle, collateral ratio, stability mode, or the context
load_from(total_sol, sol_usd_price, clock, stability_controller, stablecoin_fees, levercoin_fees, stablecoin_mint, levercoin_mint) ==
  LET stablecoin_supply == stablecoin_mint.supply
      levercoin_supply == IF levercoin_mint.ok THEN Ok(levercoin_mint.val.supply) ELSE None
      cr == math_collateral_ratio(total_sol.val, sol_usd_price.val.lower, stablecoin_supply)
      mode == stability_mode(stability_controller, cr.val)
  IN  IF ~total_sol.ok THEN total_sol
      ELSE IF ~sol_usd_price.ok THEN sol_usd_price
      ELSE IF ~cr.ok THEN cr
      ELSE IF ~mode.ok THEN mode
      ELSE Ok([clock |-> clock,
               total_sol |-> total_sol.val,
               sol_usd_price |-> sol_usd_price.val,
               stablecoin_supply |-> stablecoin_supply,
               levercoin_supply |-> levercoin_supply,
               collateral_ratio |-> cr.val,
               stability_controller |-> stability_controller,
               stability_mode |-> mode.val,
               stablecoin_fees |-> stablecoin_fees,
               levercoin_fees |-> levercoin_fees])

\* mutant: the cached total is used whatever its epoch
load_any_epoch(clock, total_sol_cache, stability_controller, oracle_config, stablecoin_fees, levercoin_fees, sol_usd_pyth_feed, stablecoin_mint, levercoin_mint) ==
  load_from(Ok(total_sol_cache.total_sol),
            query_pyth_price(clock, sol_usd_pyth_feed, oracle_config),
            clock, stability_controller, stablecoin_fees, levercoin_fees,
            stablecoin_mint, levercoin_mint)

\* mutant: the price is queried against the publish time itself, so no update is stale
load_any_age(clock, total_sol_cache, stability_controller, oracle_config, stablecoin_fees, levercoin_fees, sol_usd_pyth_feed, stablecoin_mint, levercoin_mint) ==
  load_from(get_validated(total_sol_cache, clock.epoch),
            query_pyth_price([clock EXCEPT !.unix_timestamp = sol_usd_pyth_feed.publish_time],
                             sol_usd_pyth_feed, oracle_config),
            clock, stability_controller, stablecoin_fees, levercoin_fees,
            stablecoin_mint, levercoin_mint)

\* mutant: the oracle is validated before the cache
load_oracle_first(clock, total_sol_cache, stability_controller, oracle_config, stablecoin_fees, levercoin_fees, sol_usd_pyth_feed, stablecoin_mint, levercoin_mint) ==
  IF ~query_pyth_price(clock, sol_usd_pyth_feed, oracle_config).ok
  THEN query_pyth_price(clock, sol_usd_pyth_feed, oracle_config)
  ELSE load_from(get_validated(total_sol_cache, clock.epoch),
                 query_pyth_price(clock, sol_usd_pyth_feed, oracle_config),
                 clock, stability_controller, stablecoin_fees, levercoin_fees,
                 stablecoin_mint, levercoin_mint)

\* ExchangeContext::load
load(clock, total_sol_cache, stability_controller, oracle_config, stablecoin_fees, levercoin_fees, sol_usd_pyth_feed, stablecoin_mint, levercoin_mint) ==
  load_from(get_validated(total_sol_cache, clock.epoch),
            query_pyth_price(clock, sol_usd_pyth_feed, oracle_config),
            clock, stability_controller, stablecoin_fees, levercoin_fees,
            stablecoin_mint, levercoin_mint)

\* mutant: the collateral is valued at the upper price
total_value_locked_upper(c) == math_total_value_locked(c.total_sol, c.sol_usd_price.upper)

\* ExchangeContext::total_value_locked
total_value_locked(c) == math_total_value_locked(c.total_sol, c.sol_usd_price.lower)

\* mutant: an absent supply reads as a supply of zero
levercoin_supply_or_zero(c) ==
  IF c.levercoin_supply.ok THEN c.levercoin_supply ELSE Ok(0)

\* ExchangeContext::levercoin_supply
levercoin_supply(c) ==
  IF c.levercoin_supply.ok THEN c.levercoin_supply ELSE Err("LevercoinNav")

\* mutant: only Stable is pegged
stablecoin_nav_stable_only(c) ==
  IF c.stability_mode = Stable
  THEN Ok(One9)
  ELSE depeg_stablecoin_nav(c.total_sol, c.sol_usd_price.lower, c.stablecoin_supply)

\* ExchangeContext::stablecoin_nav
stablecoin_nav(c) ==
  IF c.stability_mode = Depeg
  THEN depeg_stablecoin_nav(c.total_sol, c.sol_usd_price.lower, c.stablecoin_supply)
  ELSE Ok(One9)

\* ExchangeContext::levercoin_mint_nav
levercoin_mint_nav(c) ==
  LET nav == stablecoin_nav(c)
      lev == levercoin_supply(c)
      r == next_levercoin_mint_nav(c.total_sol, c.sol_usd_price, c.stablecoin_supply,
                                   nav.val, lev.val)
  IN  IF ~nav.ok THEN nav
      ELSE IF ~lev.ok THEN lev
      ELSE IF r.ok THEN r ELSE Err("LevercoinNav")

\* ExchangeContext::levercoin_redeem_nav
levercoin_redeem_nav(c) ==
  LET nav == stablecoin_nav(c)
      lev == levercoin_supply(c)
      r == next_levercoin_redeem_nav(c.total_sol, c.sol_usd_price, c.stablecoin_supply,
                                     nav.val, lev.val)
  IN  IF ~nav.ok THEN nav
      ELSE IF ~lev.ok THEN lev
      ELSE IF r.ok THEN r ELSE Err("LevercoinNav")

\* mutant: the projected collateral is priced at the upper bound
projected_stability_mode_upper(c, new_total_sol, new_total_stablecoin) ==
  LET projected_cr ==
        math_collateral_ratio(new_total_sol, c.sol_usd_price.upper, new_total_stablecoin)
  IN  IF ~projected_cr.ok THEN projected_cr
      ELSE stability_mode(c.stability_controller, projected_cr.val)

\* ExchangeContext::projected_stability_mode
projected_stability_mode(c, new_total_sol, new_total_stablecoin) ==
  LET projected_cr ==
        math_collateral_ratio(new_total_sol, c.sol_usd_price.lower, new_total_stablecoin)
  IN  IF ~projected_cr.ok THEN projected_cr
      ELSE stability_mode(c.stability_controller, projected_cr.val)

\* mutant: the comparison is turned round
select_stability_mode_for_fees_flipped(c, projected) ==
  IF projected > c.stability_mode THEN c.stability_mode ELSE projected

\* ExchangeContext::select_stability_mode_for_fees
select_stability_mode_for_fees(c, projected) ==
  IF projected < c.stability_mode THEN c.stability_mode ELSE projected

\* mutant: the price range reaches the conversion with its bounds exchanged
token_conversion_exchanged(c, lst_sol_price) ==
  LET lst_sol == get_epoch_price(lst_sol_price, c.clock.epoch)
  IN  IF ~lst_sol.ok THEN lst_sol
      ELSE Ok(Conversion_new([lower |-> c.sol_usd_price.upper,
                              upper |-> c.sol_usd_price.lower], lst_sol.val))

\* ExchangeContext::token_conversion
token_conversion(c, lst_sol_price) ==
  LET lst_sol == get_epoch_price(lst_sol_price, c.clock.epoch)
  IN  IF ~lst_sol.ok THEN lst_sol ELSE Ok(Conversion_new(c.sol_usd_price, lst_sol.val))

\* the tail shared by the six fee operations: project, select, look up, extract
fee_tail(c, new_total_sol, new_total_stablecoin, table, amount) ==
  LET projected == projected_stability_mode(c, new_total_sol, new_total_stablecoin)
      fee == fee_for(table, select_stability_mode_for_fees(c, projected.val))
  IN  IF ~projected.ok THEN projected
      ELSE IF ~fee.ok THEN fee
      ELSE FeeExtract_new(fee.val, amount)

\* ExchangeContext::stablecoin_mint_fee
stablecoin_mint_fee(c, lst_sol_price, amount_lst) ==
  LET new_sol == convert_sol(lst_sol_price, amount_lst, c.clock.epoch)
      new_total_sol == checked_add(c.total_sol, new_sol.val)
      conv == token_conversion(c, lst_sol_price)
      nav == stablecoin_nav(c)
      minted == lst_to_token(conv.val, amount_lst, nav.val)
      new_total_stablecoin == checked_add(minted.val, c.stablecoin_supply)
  IN  IF ~new_sol.ok THEN new_sol
      ELSE IF ~new_total_sol.ok THEN Err("DestinationFeeSol")
      ELSE IF ~conv.ok THEN conv
      ELSE IF ~nav.ok THEN nav
      ELSE IF ~minted.ok THEN minted
      ELSE IF ~new_total_stablecoin.ok THEN Err("DestinationFeeStablecoin")
      ELSE fee_tail(c, new_total_sol.val, new_total_stablecoin.val,
                    c.stablecoin_fees.mint, amount_lst)

\* ExchangeContext::stablecoin_redeem_fee
stablecoin_redeem_fee(c, lst_sol_price, amount_lst) ==
  LET sol_rm == convert_sol(lst_sol_price, amount_lst, c.clock.epoch)
      new_total_sol == checked_sub(c.total_sol, sol_rm.val)
      conv == token_conversion(c, lst_sol_price)
      nav == stablecoin_nav(c)
      stablecoin_redeemed == lst_to_token(conv.val, amount_lst, nav.val)
      new_total_stablecoin == checked_sub(c.stablecoin_supply, stablecoin_redeemed.val)
  IN  IF ~sol_rm.ok THEN sol_rm
      ELSE IF ~new_total_sol.ok THEN Err("DestinationFeeSol")
      ELSE IF ~conv.ok THEN conv
      ELSE IF ~nav.ok THEN nav
      ELSE IF ~stablecoin_redeemed.ok THEN stablecoin_redeemed
      ELSE IF ~new_total_stablecoin.ok THEN Err("DestinationFeeStablecoin")
      ELSE fee_tail(c, new_total_sol.val, new_total_stablecoin.val,
                    c.stablecoin_fees.redeem, amount_lst)

\* ExchangeContext::levercoin_mint_fee
levercoin_mint_fee(c, lst_sol_price, amount_lst) ==
  LET new_sol == convert_sol(lst_sol_price, amount_lst, c.clock.epoch)
      new_total_sol == checked_add(c.total_sol, new_sol.val)
  IN  IF ~new_sol.ok THEN new_sol
      ELSE IF ~new_total_sol.ok THEN Err("DestinationFeeSol")
      ELSE fee_tail(c, new_total_sol.val, c.stablecoin_supply,
                    c.levercoin_fees.mint, amount_lst)

\* ExchangeContext::levercoin_redeem_fee
levercoin_redeem_fee(c, lst_sol_price, amount_lst) ==
  LET sol_rm == convert_sol(lst_sol_price, amount_lst, c.clock.epoch)
      new_total_sol == checked_sub(c.total_sol, sol_rm.val)
  IN  IF ~sol_rm.ok THEN sol_rm
      ELSE IF ~new_total_sol.ok THEN Err("DestinationFeeSol")
      ELSE fee_tail(c, new_total_sol.val, c.stablecoin_supply,
                    c.levercoin_fees.redeem, amount_lst)

\* mutant: the projected supply wraps round
levercoin_to_stablecoin_fee_wrapping(c, amount_stablecoin) ==
  fee_tail(c, c.total_sol, (c.stablecoin_supply + amount_stablecoin) % (U64Max + 1),
           c.levercoin_fees.swap_to_stablecoin, amount_stablecoin)

\* mutant: the fee is extracted from the projected supply
levercoin_to_stablecoin_fee_of_total(c, amount_stablecoin) ==
  LET new_total_stablecoin == checked_add(c.stablecoin_supply, amount_stablecoin)
  IN  IF ~new_total_stablecoin.ok THEN Err("DestinationFeeStablecoin")
      ELSE fee_tail(c, c.total_sol, new_total_stablecoin.val,
                    c.levercoin_fees.swap_to_stablecoin, new_total_stablecoin.val)

\* ExchangeContext::levercoin_to_stablecoin_fee
levercoin_to_stablecoin_fee(c, amount_stablecoin) ==
  LET new_total_stablecoin == checked_add(c.stablecoin_supply, amount_stablecoin)
  IN  IF ~new_total_stablecoin.ok THEN Err("DestinationFeeStablecoin")
      ELSE fee_tail(c, c.total_sol, new_total_stablecoin.val,
                    c.levercoin_fees.swap_to_stablecoin, amount_stablecoin)

\* mutant: the mode is projected on a supply grown by the amount
stablecoin_to_levercoin_fee_grown(c, amount_stablecoin) ==
  LET new_total_stablecoin == checked_add(c.stablecoin_supply, amount_stablecoin)
  IN  IF ~new_total_stablecoin.ok THEN Err("DestinationFeeStablecoin")
      ELSE fee_tail(c, c.total_sol, new_total_stablecoin.val,
                    c.levercoin_fees.swap_from_stablecoin, amount_stablecoin)

\* mutant: the mode is projected on the supply before the swap
stablecoin_to_levercoin_fee_unprojected(c, amount_stablecoin) ==
  LET new_total_stablecoin == checked_sub(c.stablecoin_supply, amount_stablecoin)
  IN  IF ~new_total_stablecoin.ok THEN Err("DestinationFeeStablecoin")
      ELSE fee_tail(c, c.total_sol, c.stablecoin_supply,
                    c.levercoin_fees.swap_from_stablecoin, amount_stablecoin)

\* ExchangeContext::stablecoin_to_levercoin_fee
stablecoin_to_levercoin_fee(c, amount_stablecoin) ==
  LET new_total_stablecoin == checked_sub(c.stablecoin_supply, amount_stablecoin)
  IN  IF ~new_total_stablecoin.ok THEN Err("DestinationFeeStablecoin")
      ELSE fee_tail(c, c.total_sol, new_total_stablecoin.val,
                    c.levercoin_fees.swap_from_stablecoin, amount_stablecoin)

\* mutant: the ceiling is computed at the lower price
max_mintable_stablecoin_lower(c) ==
  math_max_mintable_stablecoin(min_stability_threshold(c.stability_controller),
                               c.total_sol, c.sol_usd_price.lower, c.stablecoin_supply)

\* ExchangeContext::max_mintable_stablecoin
max_mintable_stablecoin(c) ==
  math_max_mintable_stablecoin(min_stability_threshold(c.stability_controller),
                               c.total_sol, c.sol_usd_price.upper, c.stablecoin_supply)

\* mutant: the limit is the lowest threshold, whatever the mode
max_swappable_stablecoin_to_floor(c) ==
  LET tvl == total_value_locked(c)
  IN  IF ~tvl.ok THEN tvl
      ELSE math_max_swappable_stablecoin(min_stability_threshold(c.stability_controller),
                                         tvl.val, c.stablecoin_supply)

\* ExchangeContext::max_swappable_stablecoin_to_next_threshold
max_swappable_stablecoin_to_next_threshold(c) ==
  LET tvl == total_value_locked(c)
      next == next_stability_threshold(c.stability_controller, c.stability_mode)
  IN  IF ~tvl.ok THEN tvl
      ELSE IF ~next.ok THEN Err("NoNextStabilityThreshold")
      ELSE math_max_swappable_stablecoin(next.val, tvl.val, c.stablecoin_supply)

\* ExchangeContext::max_swappable_stablecoin
max_swappable_stablecoin(c) ==
  LET tvl == total_value_locked(c)
  IN  IF ~tvl.ok THEN tvl
      ELSE math_max_swappable_stablecoin(min_stability_threshold(c.stability_controller),
                                         tvl.val, c.stablecoin_supply)

\* ExchangeContext::validate_stablecoin_swap_amount
validate_stablecoin_swap_amount(c, requested_amount) ==
  LET max_swappable == max_swappable_stablecoin(c)
  IN  IF ~max_swappable.ok THEN max_swappable
      ELSE IF requested_amount <= max_swappable.val THEN Ok(requested_amount)
      ELSE Err("RequestedStablecoinOverMaxMintable")

\* mutant: the ceiling itself is refused
validate_stablecoin_amount_exclusive(c, requested_amount) ==
  LET max == max_mintable_stablecoin(c)
  IN  IF ~max.ok THEN max
      ELSE IF requested_amount < max.val THEN Ok(requested_amount)
      ELSE Err("RequestedStablecoinOverMaxMintable")

\* ExchangeContext::validate_stablecoin_amount
validate_stablecoin_amount(c, requested_amount) ==
  LET max == max_mintable_stablecoin(c)
  IN  IF ~max.ok THEN max
      ELSE IF requested_amount <= max.val THEN Ok(requested_amount)
      ELSE Err("RequestedStablecoinOverMaxMintable")

\* mutant: the two levercoin NAVs are passed to the range the other way round
swap_conversion_swapped(c) ==
  LET redeem == levercoin_redeem_nav(c)
      mint == levercoin_mint_nav(c)
      nav == stablecoin_nav(c)
  IN  IF ~redeem.ok THEN redeem
      ELSE IF ~mint.ok THEN mint
      ELSE IF ~nav.ok THEN nav
      ELSE Ok(SwapConversion_new(nav.val, [lower |-> mint.val, upper |-> redeem.val]))

\* ExchangeContext::swap_conversion
swap_conversion(c) ==
  LET redeem == levercoin_redeem_nav(c)
      mint == levercoin_mint_nav(c)
      nav == stablecoin_nav(c)
  IN  IF ~redeem.ok THEN redeem
      ELSE IF ~mint.ok THEN mint
      ELSE IF ~nav.ok THEN nav
      ELSE Ok(SwapConversion_new(nav.val, [lower |-> redeem.val, upper |-> mint.val]))

\* ExchangeContext::sol_to_stablecoin
sol_to_stablecoin(c, amount_sol) ==
  LET nav == stablecoin_nav(c)
  IN  IF ~nav.ok THEN nav
      ELSE lst_to_token(Conversion_new(c.sol_usd_price, One9), amount_sol, nav.val)

\* ExchangeContext::sol_to_levercoin
sol_to_levercoin(c, amount_sol) ==
  LET nav == levercoin_mint_nav(c)
  IN  IF ~nav.ok THEN nav
      ELSE lst_to_token(Conversion_new(c.sol_usd_price, One9), amount_sol, nav.val)

\* ExchangeContext::stability_pool_cap
stability_pool_cap(c, stablecoin_in_pool, levercoin_in_pool) ==
  LET nav == stablecoin_nav(c)
      levercoin_nav == levercoin_mint_nav(c)
  IN  IF ~nav.ok THEN nav
      ELSE IF ~levercoin_nav.ok THEN levercoin_nav
      ELSE math_stability_pool_cap(nav.val, stablecoin_in_pool, levercoin_nav.val,
                                   levercoin_in_pool)

-----------------------------------------------------------------------------
(* Quotes (hylo-jupiter).                                                  *)

\* stability_pool_math::amount_token_to_withdraw: pro-rata share of the pool
amount_token_to_withdraw(shares_in, share_supply, pool_balance) ==
  mul_div_floor(shares_in, pool_balance, share_supply)

\* util::fee_pct_decimal; `one` is UFix64::one() at the scale of the amounts
fee_pct_decimal(fees_extracted, total_in, one) ==
  LET pct == mul_div_floor(fees_extracted, one, total_in)
  IN  IF pct.ok THEN pct ELSE Err("FeePct")

Quote(in_amount, out_amount, fee_amount, fee_mint, fee_pct) ==
  [in_amount |-> in_amount, out_amount |-> out_amount, fee_amount |-> fee_amount,
   fee_mint |-> fee_mint, fee_pct |-> fee_pct]

\* In the quote functions each `?` of the source is a local step: it takes the
\* values computed so far, returns the failure of the newest one, and otherwise
\* hands them on to the next step.

\* quote::hyusd_mint
hyusd_mint(c, lst_header, in_amount) ==
  LET quoted(fe, hyusd_out, pct) ==
        IF ~pct.ok THEN pct
        ELSE Ok(Quote(in_amount, hyusd_out.val, fe.val.fees_extracted, lst_header.mint, pct.val))
      validated(fe, hyusd_out) ==
        IF ~hyusd_out.ok THEN hyusd_out
        ELSE quoted(fe, hyusd_out, fee_pct_decimal(fe.val.fees_extracted, in_amount, One9))
      converted(fe, minted) ==
        IF ~minted.ok THEN minted
        ELSE validated(fe, validate_stablecoin_amount(c, minted.val))
      converting(fe, nav, conv) ==
        IF ~conv.ok THEN conv
        ELSE converted(fe, lst_to_token(conv.val, fe.val.amount_remaining, nav.val))
      priced(fe, nav) ==
        IF ~nav.ok THEN nav
        ELSE converting(fe, nav, token_conversion(c, lst_header.price_sol))
      charged(fe) ==
        IF ~fe.ok THEN fe
        ELSE priced(fe, stablecoin_nav(c))
  IN  charged(stablecoin_mint_fee(c, lst_header.price_sol, in_amount))

\* mutant: the redeemed tokens are converted at par
hyusd_redeem_at_par(c, lst_header, in_amount) ==
  LET quoted(fe, pct) ==
        IF ~pct.ok THEN pct
        ELSE Ok(Quote(in_amount, fe.val.amount_remaining, fe.val.fees_extracted,
                      lst_header.mint, pct.val))
      charged(lst_out, fe) ==
        IF ~fe.ok THEN fe
        ELSE quoted(fe, fee_pct_decimal(fe.val.fees_extracted, lst_out.val, One9))
      converted(lst_out) ==
        IF ~lst_out.ok THEN lst_out
        ELSE charged(lst_out, stablecoin_redeem_fee(c, lst_header.price_sol, lst_out.val))
      converting(nav, conv) ==
        IF ~conv.ok THEN conv
        ELSE converted(token_to_lst(conv.val, in_amount, One9))
      priced(nav) ==
        IF ~nav.ok THEN nav
        ELSE converting(nav, token_conversion(c, lst_header.price_sol))
  IN  priced(stablecoin_nav(c))

\* quote::hyusd_redeem
hyusd_redeem(c, lst_header, in_amount) ==
  LET quoted(fe, pct) ==
        IF ~pct.ok THEN pct
        ELSE Ok(Quote(in_amount, fe.val.amount_remaining, fe.val.fees_extracted,
                      lst_header.mint, pct.val))
      charged(lst_out, fe) ==
        IF ~fe.ok THEN fe
        ELSE quoted(fe, fee_pct_decimal(fe.val.fees_extracted, lst_out.val, One9))
      converted(lst_out) ==
        IF ~lst_out.ok THEN lst_out
        ELSE charged(lst_out, stablecoin_redeem_fee(c, lst_header.price_sol, lst_out.val))
      converting(nav, conv) ==
        IF ~conv.ok THEN conv
        ELSE converted(token_to_lst(conv.val, in_amount, nav.val))
      priced(nav) ==
        IF ~nav.ok THEN nav
        ELSE converting(nav, token_conversion(c, lst_header.price_sol))
  IN  priced(stablecoin_nav(c))

\* quote::xsol_mint
xsol_mint(c, lst_header, in_amount) ==
  LET quoted(fe, xsol_out, pct) ==
        IF ~pct.ok THEN pct
        ELSE Ok(Quote(in_amount, xsol_out.val, fe.val.fees_extracted, lst_header.mint, pct.val))
      converted(fe, xsol_out) ==
        IF ~xsol_out.ok THEN xsol_out
        ELSE quoted(fe, xsol_out, fee_pct_decimal(fe.val.fees_extracted, in_amount, One9))
      converting(fe, nav, conv) ==
        IF ~conv.ok THEN conv
        ELSE converted(fe, lst_to_token(conv.val, fe.val.amount_remaining, nav.val))
      priced(fe, nav) ==
        IF ~nav.ok THEN nav
        ELSE converting(fe, nav, token_conversion(c, lst_header.price_sol))
      charged(fe) ==
        IF ~fe.ok THEN fe
        ELSE priced(fe, levercoin_mint_nav(c))
  IN  charged(levercoin_mint_fee(c, lst_header.price_sol, in_amount))

\* quote::xsol_redeem
xsol_redeem(c, lst_header, in_amount) ==
  LET quoted(fe, pct) ==
        IF ~pct.ok THEN pct
        ELSE Ok(Quote(in_amount, fe.val.amount_remaining, fe.val.fees_extracted,
                      lst_header.mint, pct.val))
      charged(lst_out, fe) ==
        IF ~fe.ok THEN fe
        ELSE quoted(fe, fee_pct_decimal(fe.val.fees_extracted, lst_out.val, One9))
      converted(lst_out) ==
        IF ~lst_out.ok THEN lst_out
        ELSE charged(lst_out, levercoin_redeem_fee(c, lst_header.price_sol, lst_out.val))
      converting(nav, conv) ==
        IF ~conv.ok THEN conv
        ELSE converted(token_to_lst(conv.val, in_amount, nav.val))
      priced(nav) ==
        IF ~nav.ok THEN nav
        ELSE converting(nav, token_conversion(c, lst_header.price_sol))
  IN  priced(levercoin_redeem_nav(c))

\* mutant: the whole input is converted and the fee is taken out of the output
hyusd_xsol_swap_fee_of_output(c, in_amount) ==
  LET quoted(fe, pct) ==
        IF ~pct.ok THEN pct
        ELSE Ok(Quote(in_amount, fe.val.amount_remaining, fe.val.fees_extracted, "HYUSD", pct.val))
      charged(converted, fe) ==
        IF ~fe.ok THEN fe
        ELSE quoted(fe, fee_pct_decimal(fe.val.fees_extracted, converted.val, One6))
      swapped(converted) ==
        IF ~converted.ok THEN converted
        ELSE charged(converted, stablecoin_to_levercoin_fee(c, converted.val))
      converting(sc) ==
        IF ~sc.ok THEN sc
        ELSE swapped(stable_to_lever(sc.val, in_amount))
  IN  converting(swap_conversion(c))

\* quote::hyusd_xsol_swap
hyusd_xsol_swap(c, in_amount) ==
  LET quoted(fe, xsol_out, pct) ==
        IF ~pct.ok THEN pct
        ELSE Ok(Quote(in_amount, xsol_out.val, fe.val.fees_extracted, "HYUSD", pct.val))
      swapped(fe, xsol_out) ==
        IF ~xsol_out.ok THEN xsol_out
        ELSE quoted(fe, xsol_out, fee_pct_decimal(fe.val.fees_extracted, in_amount, One6))
      converting(fe, sc) ==
        IF ~sc.ok THEN sc
        ELSE swapped(fe, stable_to_lever(sc.val, fe.val.amount_remaining))
      charged(fe) ==
        IF ~fe.ok THEN fe
        ELSE converting(fe, swap_conversion(c))
  IN  charged(stablecoin_to_levercoin_fee(c, in_amount))

\* quote::xsol_hyusd_swap
xsol_hyusd_swap(c, in_amount) ==
  LET quoted(fe, pct) ==
        IF ~pct.ok THEN pct
        ELSE Ok(Quote(in_amount, fe.val.amount_remaining, fe.val.fees_extracted, "HYUSD", pct.val))
      charged(hyusd_total, fe) ==
        IF ~fe.ok THEN fe
        ELSE quoted(fe, fee_pct_decimal(fe.val.fees_extracted, hyusd_total.val, One6))
      validated(hyusd_total) ==
        IF ~hyusd_total.ok THEN hyusd_total
        ELSE charged(hyusd_total, levercoin_to_stablecoin_fee(c, hyusd_total.val))
      swapped(converted) ==
        IF ~converted.ok THEN converted
        ELSE validated(validate_stablecoin_swap_amount(c, converted.val))
      converting(sc) ==
        IF ~sc.ok THEN sc
        ELSE swapped(lever_to_stable(sc.val, in_amount))
  IN  converting(swap_conversion(c))

\* mutant: the share supply and the pool balance change places
shyusd_redeem_exchanged(shyusd_mint, hyusd_pool, xsol_pool, pool_config, shyusd_in) ==
  IF xsol_pool.amount = 0
  THEN LET stablecoin_to_withdraw ==
             amount_token_to_withdraw(shyusd_in, hyusd_pool.amount, shyusd_mint.supply)
           fe == FeeExtract_new(pool_config.withdrawal_fee, stablecoin_to_withdraw.val)
           pct == fee_pct_decimal(fe.val.fees_extracted, stablecoin_to_withdraw.val, One6)
       IN  IF ~stablecoin_to_withdraw.ok THEN stablecoin_to_withdraw
           ELSE IF ~fe.ok THEN fe
           ELSE IF ~pct.ok THEN pct
           ELSE Ok(Quote(shyusd_in, fe.val.amount_remaining, fe.val.fees_extracted,
                         "HYUSD", pct.val))
  ELSE Err("sHYUSD/hyUSD not possible due to xSOL in stability pool.")

\* mutant: the withdrawal is computed before the pool is looked at
shyusd_redeem_withdrawal_first(shyusd_mint, hyusd_pool, xsol_pool, pool_config, shyusd_in) ==
  LET stablecoin_to_withdraw ==
        amount_token_to_withdraw(shyusd_in, shyusd_mint.supply, hyusd_pool.amount)
      fe == FeeExtract_new(pool_config.withdrawal_fee, stablecoin_to_withdraw.val)
      pct == fee_pct_decimal(fe.val.fees_extracted, stablecoin_to_withdraw.val, One6)
  IN  IF ~stablecoin_to_withdraw.ok THEN stablecoin_to_withdraw
      ELSE IF xsol_pool.amount # 0
      THEN Err("sHYUSD/hyUSD not possible due to xSOL in stability pool.")
      ELSE IF ~fe.ok THEN fe
      ELSE IF ~pct.ok THEN pct
      ELSE Ok(Quote(shyusd_in, fe.val.amount_remaining, fe.val.fees_extracted,
                    "HYUSD", pct.val))

\* quote::shyusd_redeem
shyusd_redeem(shyusd_mint, hyusd_pool, xsol_pool, pool_config, shyusd_in) ==
  IF xsol_pool.amount = 0
  THEN LET stablecoin_to_withdraw ==
             amount_token_to_withdraw(shyusd_in, shyusd_mint.supply, hyusd_pool.amount)
           fe == FeeExtract_new(pool_config.withdrawal_fee, stablecoin_to_withdraw.val)
           pct == fee_pct_decimal(fe.val.fees_extracted, stablecoin_to_withdraw.val, One6)
       IN  IF ~stablecoin_to_withdraw.ok THEN stablecoin_to_withdraw
           ELSE IF ~fe.ok THEN fe
           ELSE IF ~pct.ok THEN pct
           ELSE Ok(Quote(shyusd_in, fe.val.amount_remaining, fe.val.fees_extracted,
                         "HYUSD", pct.val))
  ELSE Err("sHYUSD/hyUSD not possible due to xSOL in stability pool.")

\* stability_pool_math::lp_token_nav: the pool's value (stablecoin leg at its
\* NAV plus levercoin leg at its NAV) divided by the share supply
lp_token_nav(nav_stablecoin, stablecoin_in_pool, nav_levercoin, levercoin_in_pool, lp_token_supply) ==
  LET cap == math_stability_pool_cap(nav_stablecoin, stablecoin_in_pool, nav_levercoin,
                                     levercoin_in_pool)
  IN  IF ~cap.ok THEN cap ELSE mul_div_floor(cap.val, One6, lp_token_supply)

\* stability_pool_math::lp_token_out: the shares an amount buys at the share NAV
lp_token_out(amount, nav) == mul_div_floor(amount, One6, nav)

\* stability_pool_math::stablecoin_withdrawal_fee: every outcome a fee extraction
\* from the withdrawn stablecoin can have (a failure, or a fee of at most the
\* withdrawn amount with the rest remaining)
stablecoin_withdrawal_fee(stablecoin_in_pool, stablecoin_to_withdraw, nav_stablecoin, levercoin_to_withdraw, nav_levercoin, withdrawal_fee) ==
  {Err("StablecoinWithdrawalFee")} \cup
  { Ok([fees_extracted |-> f, amount_remaining |-> stablecoin_to_withdraw - f]) :
      f \in 0 .. stablecoin_to_withdraw }

\* quote::shyusd_mint
shyusd_mint(c, shyusd_mint_account, hyusd_pool, xsol_pool, hyusd_in) ==
  LET quoted(shyusd_out) ==
        IF ~shyusd_out.ok THEN shyusd_out
        ELSE Ok(Quote(hyusd_in, shyusd_out.val, 0, "HYUSD", 0))
      valued(shyusd_nav) ==
        IF ~shyusd_nav.ok THEN shyusd_nav
        ELSE quoted(lp_token_out(hyusd_in, shyusd_nav.val))
      levered(nav, xsol_nav) ==
        IF ~xsol_nav.ok THEN xsol_nav
        ELSE valued(lp_token_nav(nav.val, hyusd_pool.amount, xsol_nav.val, xsol_pool.amount,
                                 shyusd_mint_account.supply))
      priced(nav) ==
        IF ~nav.ok THEN nav
        ELSE levered(nav, levercoin_mint_nav(c))
  IN  priced(stablecoin_nav(c))

\* quote::shyusd_redeem_lst: the results it can return, one for each outcome of
\* the withdrawal fee
shyusd_redeem_lst(c, shyusd_mint_account, hyusd_pool, xsol_pool, pool_config, lst_header, shyusd_in) ==
  LET quoted(total_fees_lst, total_out_lst, pct) ==
        IF ~pct.ok THEN pct
        ELSE Ok(Quote(shyusd_in, total_out_lst.val, total_fees_lst.val, lst_header.mint,
                      pct.val))
      summed(total_fees_lst, total_out_lst) ==
        IF ~total_fees_lst.ok THEN Err("Fee overflow: withdrawal + hyUSD + xSOL")
        ELSE IF ~total_out_lst.ok THEN Err("Output overflow: hyUSD + xSOL")
        ELSE quoted(total_fees_lst, total_out_lst,
                    fee_pct_decimal(total_fees_lst.val, total_out_lst.val, One9))
      fees_of(withdrawal_fee_lst, hyusd_fe, xsol_fe, sub) ==
        IF ~sub.ok THEN sub
        ELSE checked_add(sub.val, xsol_fe.val.fees_extracted)
      xsol_charged(withdrawal_fee_lst, hyusd_fe, xsol_fe) ==
        IF ~xsol_fe.ok THEN xsol_fe
        ELSE summed(fees_of(withdrawal_fee_lst, hyusd_fe, xsol_fe,
                            checked_add(withdrawal_fee_lst.val, hyusd_fe.val.fees_extracted)),
                    checked_add(hyusd_fe.val.amount_remaining, xsol_fe.val.amount_remaining))
      xsol_converted(withdrawal_fee_lst, hyusd_fe, xsol_redeem_lst) ==
        IF ~xsol_redeem_lst.ok THEN xsol_redeem_lst
        ELSE xsol_charged(withdrawal_fee_lst, hyusd_fe,
                          levercoin_redeem_fee(c, lst_header.price_sol, xsol_redeem_lst.val))
      xsol_priced(xsol_to_withdraw, conversion, withdrawal_fee_lst, hyusd_fe, xsol_redeem_nav) ==
        IF ~xsol_redeem_nav.ok THEN xsol_redeem_nav
        ELSE xsol_converted(withdrawal_fee_lst, hyusd_fe,
                            token_to_lst(conversion.val, xsol_to_withdraw.val,
                                         xsol_redeem_nav.val))
      hyusd_charged(xsol_to_withdraw, conversion, withdrawal_fee_lst, hyusd_fe) ==
        IF ~hyusd_fe.ok THEN hyusd_fe
        ELSE xsol_priced(xsol_to_withdraw, conversion, withdrawal_fee_lst, hyusd_fe,
                         levercoin_redeem_nav(c))
      hyusd_converted(xsol_to_withdraw, conversion, withdrawal_fee_lst, hyusd_redeem_lst) ==
        IF ~hyusd_redeem_lst.ok THEN hyusd_redeem_lst
        ELSE hyusd_charged(xsol_to_withdraw, conversion, withdrawal_fee_lst,
                           stablecoin_redeem_fee(c, lst_header.price_sol, hyusd_redeem_lst.val))
      fee_converted(xsol_to_withdraw, hyusd_nav, withdrawal, conversion, withdrawal_fee_lst) ==
        IF ~withdrawal_fee_lst.ok THEN withdrawal_fee_lst
        ELSE hyusd_converted(xsol_to_withdraw, conversion, withdrawal_fee_lst,
                             token_to_lst(conversion.val, withdrawal.val.amount_remaining,
                                          hyusd_nav.val))
      converting(xsol_to_withdraw, hyusd_nav, withdrawal, conversion) ==
        IF ~conversion.ok THEN conversion
        ELSE fee_converted(xsol_to_withdraw, hyusd_nav, withdrawal, conversion,
                           token_to_lst(conversion.val, withdrawal.val.fees_extracted,
                                        hyusd_nav.val))
      withdrawn(xsol_to_withdraw, hyusd_nav, withdrawal) ==
        IF ~withdrawal.ok THEN withdrawal
        ELSE converting(xsol_to_withdraw, hyusd_nav, withdrawal,
                        token_conversion(c, lst_header.price_sol))
      levered(hyusd_to_withdraw, xsol_to_withdraw, hyusd_nav, xsol_mint_nav) ==
        IF ~xsol_mint_nav.ok THEN {xsol_mint_nav}
        ELSE { withdrawn(xsol_to_withdraw, hyusd_nav, withdrawal) :
                 withdrawal \in stablecoin_withdrawal_fee(hyusd_pool.amount,
                                                          hyusd_to_withdraw.val, hyusd_nav.val,
                                                          xsol_to_withdraw.val,
                                                          xsol_mint_nav.val,
                                                          pool_config.withdrawal_fee) }
      priced(hyusd_to_withdraw, xsol_to_withdraw, hyusd_nav) ==
        IF ~hyusd_nav.ok THEN {hyusd_nav}
        ELSE levered(hyusd_to_withdraw, xsol_to_withdraw, hyusd_nav, levercoin_mint_nav(c))
      xsol_share(hyusd_to_withdraw, xsol_to_withdraw) ==
        IF ~xsol_to_withdraw.ok THEN {xsol_to_withdraw}
        ELSE priced(hyusd_to_withdraw, xsol_to_withdraw, stablecoin_nav(c))
      hyusd_share(hyusd_to_withdraw) ==
        IF ~hyusd_to_withdraw.ok THEN {hyusd_to_withdraw}
        ELSE xsol_share(hyusd_to_withdraw,
                        amount_token_to_withdraw(shyusd_in, shyusd_mint_account.supply,
                                                 xsol_pool.amount))
  IN  hyusd_share(amount_token_to_withdraw(shyusd_in, shyusd_mint_account.supply,
                                           hyusd_pool.amount))

-----------------------------------------------------------------------------
(* Inputs of a request.                                                    *)

\* the clock of the request
ClockEpoch == 1
ClockTime == 5
\* OracleConfig::interval_secs
OracleInterval == 2

Clock == [epoch |-> ClockEpoch, unix_timestamp |-> ClockTime]

\* k tenths at the fee scale
Rate(k) == (k * One4) \div 10

\* a fee table: the rate in Stable, in Decay and in Depeg
FeeTable(s, d, g) == [m \in Modes |-> IF m = Stable THEN s ELSE IF m = Decay THEN d ELSE g]

\* protocol configurations: thresholds (threshold_1 > threshold_2 > 1) and fees
Configs ==
  { [stability_controller |-> [threshold_1 |-> (15 * One9) \div 10,
                               threshold_2 |-> (12 * One9) \div 10],
     stablecoin_fees |-> [mint |-> FeeTable(Rate(0), Rate(1), Rate(3)),
                          redeem |-> FeeTable(Rate(1), Rate(2), Rate(5))],
     levercoin_fees |-> [mint |-> FeeTable(Rate(3), Rate(2), Rate(1)),
                         redeem |-> FeeTable(Rate(1), Rate(4), Rate(10)),
                         swap_to_stablecoin |-> FeeTable(Rate(1), Rate(2), Rate(3)),
                         swap_from_stablecoin |-> FeeTable(Rate(2), Rate(1), Rate(0))]],
    [stability_controller |-> [threshold_1 |-> (13 * One9) \div 10,
                               threshold_2 |-> (11 * One9) \div 10],
     stablecoin_fees |-> [mint |-> FeeTable(Rate(1), Rate(5), Rate(12)),
                          redeem |-> FeeTable(Rate(0), Rate(3), Rate(7))],
     levercoin_fees |-> [mint |-> FeeTable(Rate(5), Rate(3), Rate(0)),
                         redeem |-> FeeTable(Rate(2), Rate(6), Rate(11)),
                         swap_to_stablecoin |-> FeeTable(Rate(0), Rate(4), Rate(8)),
                         swap_from_stablecoin |-> FeeTable(Rate(3), Rate(2), Rate(1))]] }

OracleConfigs == { [interval_secs |-> OracleInterval, conf_tolerance |-> One8 \div 10] }

\* price updates: the midpoint, the confidence, the publish time
Feeds ==
  [price : {5 * One8},
   conf : {0, One8 \div 2, One8},
   publish_time : {ClockTime - OracleInterval - 1, ClockTime - OracleInterval, ClockTime}]

Caches == [total_sol : 0 .. MaxTotalSol, epoch : {ClockEpoch - 1, ClockEpoch, ClockEpoch + 1}]

Mints == [supply : 0 .. MaxSupply]

LeverMints == {None} \cup {Ok([supply |-> s]) : s \in {0, MaxSupply - 2}}

\* LST headers: the LST/SOL price with the epoch it was set in
LstHeaders ==
  { [mint |-> "JITOSOL", price_sol |-> [price |-> p, epoch |-> e]] :
      p \in {(11 * One9) \div 10}, e \in {ClockEpoch - 1, ClockEpoch} }

Amounts == 0 .. MaxAmount

\* requested amounts around a ceiling
Around(max) == Amounts \cup (IF max.ok THEN {n \in {max.val - 1, max.val, max.val + 1} : n >= 0} ELSE {})

\* amounts and NAVs a conversion is tried with
ConversionAmounts == Amounts \cup {10 * MaxAmount}
Navs == {One9 \div 2, One9, 3 * One9}

\* stability pool snapshots
PoolConfigs == [withdrawal_fee : {Rate(0), Rate(1), Rate(12)}]

\* the scenario of the specification: 1,000,000 of collateral at a price in
\* [20.00, 20.01], a stablecoin supply of 15,000,000, thresholds (1.5, 1.2); the
\* amounts are in proportion (collateral worth 4/3 of the supply) and the upper
\* price is the lower price plus the smallest step the oracle's scale allows
Scenario ==
  [loaded |-> TRUE,
   clock |-> Clock,
   total_sol_cache |-> [total_sol |-> 80, epoch |-> ClockEpoch],
   config |-> CHOOSE cfg \in Configs :
                cfg.stability_controller = [threshold_1 |-> (15 * One9) \div 10,
                                            threshold_2 |-> (12 * One9) \div 10],
   oracle_config |-> CHOOSE oc \in OracleConfigs : TRUE,
   sol_usd |-> [price |-> 20 * One8 + 1, conf |-> 1, publish_time |-> ClockTime],
   hyusd_mint |-> [supply |-> 120],
   xsol_mint |-> Ok([supply |-> MaxSupply - 2])]

\* the collateral an operation of the scenario adds to project the ratios 1.45
\* and 1.55
ScenarioDeposits == {7, 13}

\* a protocol whose collateral is one unit short of the integer range, at a
\* price of 1.0
Brimful ==
  [loaded |-> TRUE,
   clock |-> Clock,
   total_sol_cache |-> [total_sol |-> U64Max - 1, epoch |-> ClockEpoch],
   config |-> Scenario.config,
   oracle_config |-> Scenario.oracle_config,
   sol_usd |-> [price |-> One8, conf |-> 0, publish_time |-> ClockTime],
   hyusd_mint |-> [supply |-> 2 * One6],
   xsol_mint |-> Ok([supply |-> MaxSupply - 2])]

\* the accounts a request can read
Snapshots ==
  [loaded : {TRUE}, clock : {Clock}, total_sol_cache : Caches, config : Configs,
   oracle_config : OracleConfigs, sol_usd : Feeds, hyusd_mint : Mints,
   xsol_mint : LeverMints]
    \cup {Scenario, Brimful}

\* HyloJupiterClient::load_exchange_ctx: the context loaded from the accounts
LoadOf(a) ==
  load(a.clock, a.total_sol_cache, a.config.stability_controller, a.oracle_config,
       a.config.stablecoin_fees, a.config.levercoin_fees, a.sol_usd, a.hyusd_mint,
       a.xsol_mint)

-----------------------------------------------------------------------------
(* State: the accounts of the request, the loaded context, the last call. *)

Unloaded == Err("unloaded")
NoAccounts == [loaded |-> FALSE]
NoCall == [op |-> "none", args |-> <<>>, res |-> Err("none")]

Call(op, args, res) == [op |-> op, args |-> args, res |-> res]

Init ==
  /\ acct = NoAccounts
  /\ ctx = Unloaded
  /\ out = NoCall

\* a request starts: the accounts are read and the context is loaded from them
Load ==
  /\ ctx = Unloaded
  /\ out = NoCall
  /\ \E a \in Snapshots :
       /\ acct' = a
       /\ ctx' = LoadOf(a)
  /\ UNCHANGED out

Ready == ctx.ok /\ out = NoCall

\* mutant: a successful mint fee leaves the projected collateral in the context
StablecoinMintFeeApplied ==
  /\ Ready
  /\ \E h \in LstHeaders, a \in Amounts :
       LET res == stablecoin_mint_fee(ctx.val, h.price_sol, a)
           new_sol == convert_sol(h.price_sol, a, ctx.val.clock.epoch)
       IN  /\ out' = Call("stablecoin_mint_fee", [lst |-> h.price_sol, amount |-> a], res)
           /\ ctx' = IF res.ok
                     THEN [ctx EXCEPT !.val.total_sol = ctx.val.total_sol + new_sol.val]
                     ELSE ctx
  /\ UNCHANGED acct

StablecoinMintFee ==
  /\ Ready
  /\ \E h \in LstHeaders, a \in Amounts :
       out' = Call("stablecoin_mint_fee", [lst |-> h.price_sol, amount |-> a],
                   stablecoin_mint_fee(ctx.val, h.price_sol, a))
  /\ UNCHANGED <<acct, ctx>>

StablecoinRedeemFee ==
  /\ Ready
  /\ \E h \in LstHeaders, a \in Amounts :
       out' = Call("stablecoin_redeem_fee", [lst |-> h.price_sol, amount |-> a],
                   stablecoin_redeem_fee(ctx.val, h.price_sol, a))
  /\ UNCHANGED <<acct, ctx>>

LevercoinMintFee ==
  /\ Ready
  /\ \E h \in LstHeaders, a \in Amounts :
       out' = Call("levercoin_mint_fee", [lst |-> h.price_sol, amount |-> a],
                   levercoin_mint_fee(ctx.val, h.price_sol, a))
  /\ UNCHANGED <<acct, ctx>>

LevercoinRedeemFee ==
  /\ Ready
  /\ \E h \in LstHeaders, a \in Amounts :
       out' = Call("levercoin_redeem_fee", [lst |-> h.price_sol, amount |-> a],
                   levercoin_redeem_fee(ctx.val, h.price_sol, a))
  /\ UNCHANGED <<acct, ctx>>

LevercoinToStablecoinFee ==
  /\ Ready
  /\ \E a \in Amounts \cup {U64Max} :
       out' = Call("levercoin_to_stablecoin_fee", [amount |-> a],
                   levercoin_to_stablecoin_fee(ctx.val, a))
  /\ UNCHANGED <<acct, ctx>>

StablecoinToLevercoinFee ==
  /\ Ready
  /\ \E a \in Amounts :
       out' = Call("stablecoin_to_levercoin_fee", [amount |-> a],
                   stablecoin_to_levercoin_fee(ctx.val, a))
  /\ UNCHANGED <<acct, ctx>>

StablecoinNav ==
  /\ Ready
  /\ out' = Call("stablecoin_nav", <<>>, stablecoin_nav(ctx.val))
  /\ UNCHANGED <<acct, ctx>>

ProjectedStabilityMode ==
  /\ Ready
  /\ \E p \in ({0, MaxAmount} \X (0 .. MaxSupply))
                \cup (ScenarioDeposits \X {ctx.val.stablecoin_supply}) :
       LET sol == ctx.val.total_sol + p[1]
       IN  out' = Call("projected_stability_mode",
                       [new_total_sol |-> sol, new_total_stablecoin |-> p[2]],
                       projected_stability_mode(ctx.val, sol, p[2]))
  /\ UNCHANGED <<acct, ctx>>

SelectStabilityModeForFees ==
  /\ Ready
  /\ \E m \in Modes :
       out' = Call("select_stability_mode_for_fees", [projected |-> m],
                   Ok(select_stability_mode_for_fees(ctx.val, m)))
  /\ UNCHANGED <<acct, ctx>>

MaxMintableStablecoin ==
  /\ Ready
  /\ out' = Call("max_mintable_stablecoin", <<>>, max_mintable_stablecoin(ctx.val))
  /\ UNCHANGED <<acct, ctx>>

MaxSwappableStablecoinToNextThreshold ==
  /\ Ready
  /\ out' = Call("max_swappable_stablecoin_to_next_threshold", <<>>,
                 max_swappable_stablecoin_to_next_threshold(ctx.val))
  /\ UNCHANGED <<acct, ctx>>

MaxSwappableStablecoin ==
  /\ Ready
  /\ out' = Call("max_swappable_stablecoin", <<>>, max_swappable_stablecoin(ctx.val))
  /\ UNCHANGED <<acct, ctx>>

ValidateStablecoinAmount ==
  /\ Ready
  /\ \E a \in Around(max_mintable_stablecoin(ctx.val)) :
       out' = Call("validate_stablecoin_amount", [amount |-> a],
                   validate_stablecoin_amount(ctx.val, a))
  /\ UNCHANGED <<acct, ctx>>

ValidateStablecoinSwapAmount ==
  /\ Ready
  /\ \E a \in Around(max_swappable_stablecoin(ctx.val)) :
       out' = Call("validate_stablecoin_swap_amount", [amount |-> a],
                   validate_stablecoin_swap_amount(ctx.val, a))
  /\ UNCHANGED <<acct, ctx>>

LevercoinSupply ==
  /\ Ready
  /\ out' = Call("levercoin_supply", <<>>, levercoin_supply(ctx.val))
  /\ UNCHANGED <<acct, ctx>>

LevercoinMintNav ==
  /\ Ready
  /\ out' = Call("levercoin_mint_nav", <<>>, levercoin_mint_nav(ctx.val))
  /\ UNCHANGED <<acct, ctx>>

LevercoinRedeemNav ==
  /\ Ready
  /\ out' = Call("levercoin_redeem_nav", <<>>, levercoin_redeem_nav(ctx.val))
  /\ UNCHANGED <<acct, ctx>>

SwapConversion ==
  /\ Ready
  /\ out' = Call("swap_conversion", <<>>, swap_conversion(ctx.val))
  /\ UNCHANGED <<acct, ctx>>

SolToStablecoin ==
  /\ Ready
  /\ \E a \in Amounts :
       out' = Call("sol_to_stablecoin", [amount |-> a], sol_to_stablecoin(ctx.val, a))
  /\ UNCHANGED <<acct, ctx>>

SolToLevercoin ==
  /\ Ready
  /\ \E a \in Amounts :
       out' = Call("sol_to_levercoin", [amount |-> a], sol_to_levercoin(ctx.val, a))
  /\ UNCHANGED <<acct, ctx>>

StabilityPoolCap ==
  /\ Ready
  /\ \E sp \in {0, MaxSupply}, lp \in {0, MaxSupply} :
       out' = Call("stability_pool_cap",
                   [stablecoin_in_pool |-> sp, levercoin_in_pool |-> lp],
                   stability_pool_cap(ctx.val, sp, lp))
  /\ UNCHANGED <<acct, ctx>>

\* token_conversion, and the Conversion it returns applied both ways: an LST
\* amount to tokens at a NAV, and those tokens back to LST at the same NAV
TokenConversion ==
  /\ Ready
  /\ \E h \in LstHeaders, a \in ConversionAmounts, nav \in Navs :
       LET conv == token_conversion(ctx.val, h.price_sol)
           token == lst_to_token(conv.val, a, nav)
           lst == token_to_lst(conv.val, token.val, nav)
       IN  out' = Call("token_conversion", [lst |-> h.price_sol, amount |-> a, nav |-> nav],
                       IF ~conv.ok THEN conv
                       ELSE IF ~token.ok THEN token
                       ELSE IF ~lst.ok THEN lst
                       ELSE Ok([conversion |-> conv.val, token |-> token.val,
                                lst |-> lst.val]))
  /\ UNCHANGED <<acct, ctx>>

HyusdMint ==
  /\ Ready
  /\ \E h \in LstHeaders, a \in Amounts :
       out' = Call("hyusd_mint", [lst_header |-> h, amount |-> a],
                   hyusd_mint(ctx.val, h, a))
  /\ UNCHANGED <<acct, ctx>>

HyusdRedeem ==
  /\ Ready
  /\ \E h \in LstHeaders, a \in Amounts :
       out' = Call("hyusd_redeem", [lst_header |-> h, amount |-> a],
                   hyusd_redeem(ctx.val, h, a))
  /\ UNCHANGED <<acct, ctx>>

XsolMint ==
  /\ Ready
  /\ \E h \in LstHeaders, a \in Amounts :
       out' = Call("xsol_mint", [lst_header |-> h, amount |-> a],
                   xsol_mint(ctx.val, h, a))
  /\ UNCHANGED <<acct, ctx>>

XsolRedeem ==
  /\ Ready
  /\ \E h \in LstHeaders, a \in Amounts :
       out' = Call("xsol_redeem", [lst_header |-> h, amount |-> a],
                   xsol_redeem(ctx.val, h, a))
  /\ UNCHANGED <<acct, ctx>>

HyusdXsolSwap ==
  /\ Ready
  /\ \E a \in Amounts :
       out' = Call("hyusd_xsol_swap", [amount |-> a], hyusd_xsol_swap(ctx.val, a))
  /\ UNCHANGED <<acct, ctx>>

XsolHyusdSwap ==
  /\ Ready
  /\ \E a \in Amounts :
       out' = Call("xsol_hyusd_swap", [amount |-> a], xsol_hyusd_swap(ctx.val, a))
  /\ UNCHANGED <<acct, ctx>>

\* shyusd_redeem takes no context: it reads the pool accounts only
ShyusdRedeem ==
  /\ out = NoCall
  /\ ctx = Unloaded
  /\ \E supply \in 0 .. MaxSupply, hp \in 0 .. MaxSupply, xp \in {0, 1},
        pc \in PoolConfigs, a \in Amounts :
       out' = Call("shyusd_redeem",
                   [shyusd_mint |-> [supply |-> supply], hyusd_pool |-> [amount |-> hp],
                    xsol_pool |-> [amount |-> xp], pool_config |-> pc, amount |-> a],
                   shyusd_redeem([supply |-> supply], [amount |-> hp], [amount |-> xp], pc, a))
  /\ UNCHANGED <<acct, ctx>>

\* the pro-rata share on its own: shares handed in, share supply, pool balance
AmountTokenToWithdraw ==
  /\ out = NoCall
  /\ ctx = Unloaded
  /\ \E shares \in 0 .. MaxSupply + 1, supply \in 0 .. MaxSupply, balance \in 0 .. MaxSupply :
       out' = Call("amount_token_to_withdraw",
                   [shares_in |-> shares, share_supply |-> supply, pool_balance |-> balance],
                   amount_token_to_withdraw(shares, supply, balance))
  /\ UNCHANGED <<acct, ctx>>

\* stability pools a quote is asked against
PoolSupplies == {0, MaxSupply}
PoolBalances == {0, MaxSupply - 3}
ShareAmounts == {0, MaxSupply - 3, MaxSupply}

ShyusdMint ==
  /\ Ready
  /\ \E supply \in PoolSupplies, hp \in PoolSupplies, xp \in PoolBalances, a \in ShareAmounts :
       out' = Call("shyusd_mint",
                   [shyusd_mint |-> [supply |-> supply], hyusd_pool |-> [amount |-> hp],
                    xsol_pool |-> [amount |-> xp], amount |-> a],
                   shyusd_mint(ctx.val, [supply |-> supply], [amount |-> hp],
                               [amount |-> xp], a))
  /\ UNCHANGED <<acct, ctx>>

ShyusdRedeemLst ==
  /\ Ready
  /\ \E supply \in PoolSupplies, xp \in PoolBalances, h \in LstHeaders, a \in ShareAmounts :
       \E res \in shyusd_redeem_lst(ctx.val, [supply |-> supply], [amount |-> MaxSupply],
                                    [amount |-> xp], [withdrawal_fee |-> Rate(1)], h, a) :
         out' = Call("shyusd_redeem_lst",
                     [shyusd_mint |-> [supply |-> supply],
                      hyusd_pool |-> [amount |-> MaxSupply],
                      xsol_pool |-> [amount |-> xp],
                      pool_config |-> [withdrawal_fee |-> Rate(1)],
                      lst_header |-> h, amount |-> a],
                     res)
  /\ UNCHANGED <<acct, ctx>>

\* the caller takes the result of the call
Return ==
  /\ out # NoCall
  /\ out' = NoCall
  /\ UNCHANGED <<acct, ctx>>

Next ==
  \/ Load
  \/ StablecoinMintFee
  \/ StablecoinRedeemFee
  \/ LevercoinMintFee
  \/ LevercoinRedeemFee
  \/ LevercoinToStablecoinFee
  \/ StablecoinToLevercoinFee
  \/ StablecoinNav
  \/ ProjectedStabilityMode
  \/ SelectStabilityModeForFees
  \/ MaxMintableStablecoin
  \/ MaxSwappableStablecoinToNextThreshold
  \/ MaxSwappableStablecoin
  \/ ValidateStablecoinAmount
  \/ ValidateStablecoinSwapAmount
  \/ LevercoinSupply
  \/ LevercoinMintNav
  \/ LevercoinRedeemNav
  \/ SwapConversion
  \/ SolToStablecoin
  \/ SolToLevercoin
  \/ StabilityPoolCap
  \/ TokenConversion
  \/ HyusdMint
  \/ HyusdRedeem
  \/ XsolMint
  \/ XsolRedeem
  \/ HyusdXsolSwap
  \/ XsolHyusdSwap
  \/ ShyusdRedeem
  \/ AmountTokenToWithdraw
  \/ ShyusdMint
  \/ ShyusdRedeemLst
  \/ Return

Spec == Init /\ [][Next]_vars

-----------------------------------------------------------------------------
(* The Jupiter client: protocol parameters captured at construction, eight *)
(* accounts refreshed by update, quotes served from both. Here acct is the *)
(* client, ctx the context the quote in progress loaded, out the last call.*)

\* an entry of an account map: absent, or bytes that decode to data (or do not)
Absent == [present |-> FALSE, data |-> Err("absent")]
Account(data) == [present |-> TRUE, data |-> data]
Undecodable == Account(Err("Deserialize"))

\* util::account_map_get
account_map_get(account_map, key) ==
  LET account == account_map[key]
  IN  IF ~account.present THEN Err("Account not found " \o key) ELSE account.data

\* util::account_spl_get
account_spl_get(account_map, key) ==
  LET account == account_map[key]
  IN  IF ~account.present THEN Err("Account not found " \o key) ELSE account.data

\* HyloJupiterClient::get_accounts_to_update
get_accounts_to_update ==
  <<"HYUSD", "XSOL", "LST_HEADER_JITOSOL", "SOL_USD_PYTH_FEED", "SHYUSD", "HYUSD_POOL",
    "XSOL_POOL", "POOL_CONFIG">>

\* the client's optional fields, in the order update reads their accounts
OptionalFields ==
  <<"hyusd_mint", "xsol_mint", "jitosol_header", "sol_usd", "shyusd_mint", "hyusd_pool",
    "xsol_pool", "pool_config">>

\* StabilityController::new: the thresholds descend
StabilityController_new(threshold_1, threshold_2) ==
  IF threshold_1 > threshold_2
  THEN Ok([threshold_1 |-> threshold_1, threshold_2 |-> threshold_2])
  ELSE Err("InvalidThresholds")

\* HyloJupiterClient::from_keyed_account
from_keyed_account(keyed_account, clock_ref) ==
  LET hylo == keyed_account.data
      stability_controller ==
        StabilityController_new(hylo.val.stability_threshold_1, hylo.val.stability_threshold_2)
  IN  IF ~hylo.ok THEN hylo
      ELSE IF ~stability_controller.ok THEN stability_controller
      ELSE Ok([clock |-> clock_ref,
               total_sol_cache |-> hylo.val.total_sol_cache,
               stability_controller |-> stability_controller.val,
               oracle_config |-> [interval_secs |-> hylo.val.oracle_interval_secs,
                                  conf_tolerance |-> hylo.val.oracle_conf_tolerance],
               hyusd_fees |-> hylo.val.stablecoin_fees,
               xsol_fees |-> hylo.val.levercoin_fees,
               hyusd_mint |-> None,
               xsol_mint |-> None,
               shyusd_mint |-> None,
               jitosol_header |-> None,
               sol_usd |-> None,
               hyusd_pool |-> None,
               xsol_pool |-> None,
               pool_config |-> None])

\* the name an accessor gives the field in its error
NotSetName(field) ==
  IF field = "hyusd_mint" THEN "stablecoin_mint"
  ELSE IF field = "xsol_mint" THEN "levercoin_mint"
  ELSE field

\* HyloJupiterClient::sol_usd, hyusd_mint, xsol_mint, jitosol_header, shyusd_mint,
\* hyusd_pool, pool_config, xsol_pool
accessor(self, field) ==
  IF self[field].ok THEN self[field] ELSE Err(NotSetName(field) \o " not set")

\* HyloJupiterClient::load_exchange_ctx
load_exchange_ctx(self) ==
  LET sol_usd == accessor(self, "sol_usd")
      stablecoin_mint == accessor(self, "hyusd_mint")
      levercoin_mint == accessor(self, "xsol_mint")
  IN  IF ~sol_usd.ok THEN sol_usd
      ELSE IF ~stablecoin_mint.ok THEN stablecoin_mint
      ELSE load(self.clock, self.total_sol_cache, self.stability_controller,
                self.oracle_config, self.hyusd_fees, self.xsol_fees, sol_usd.val,
                stablecoin_mint.val, IF levercoin_mint.ok THEN levercoin_mint ELSE None)

\* mutant: each field is stored as soon as its account is read
update_stepwise(self, account_map) ==
  LET got == [i \in 1 .. 8 |->
                IF i \in {3, 4, 8}
                THEN account_map_get(account_map, get_accounts_to_update[i])
                ELSE account_spl_get(account_map, get_accounts_to_update[i])]
      failed == {i \in 1 .. 8 : ~got[i].ok}
      first == IF failed = {} THEN 9 ELSE CHOOSE i \in failed : \A j \in failed : i <= j
  IN  [res |-> IF failed = {} THEN Ok(0) ELSE got[first],
       self |-> [f \in DOMAIN self |->
                   IF \E i \in 1 .. 8 : i < first /\ OptionalFields[i] = f
                   THEN Ok(got[CHOOSE n \in 1 .. 8 : OptionalFields[n] = f].val)
                   ELSE self[f]]]

\* mutant: a protocol account in the map refreshes the captured collateral cache
update_refreshing(self, account_map) ==
  LET got == [i \in 1 .. 8 |->
                IF i \in {3, 4, 8}
                THEN account_map_get(account_map, get_accounts_to_update[i])
                ELSE account_spl_get(account_map, get_accounts_to_update[i])]
      failed == {i \in 1 .. 8 : ~got[i].ok}
      hylo == account_map_get(account_map, "HYLO")
  IN  IF failed # {}
      THEN [res |-> got[CHOOSE i \in failed : \A j \in failed : i <= j], self |-> self]
      ELSE [res |-> Ok(0),
            self |-> [f \in DOMAIN self |->
                        IF \E i \in 1 .. 8 : OptionalFields[i] = f
                        THEN Ok(got[CHOOSE n \in 1 .. 8 : OptionalFields[n] = f].val)
                        ELSE IF f = "total_sol_cache" /\ hylo.ok
                        THEN hylo.val.total_sol_cache
                        ELSE self[f]]]

\* HyloJupiterClient::update: the result and the client afterwards
update(self, account_map) ==
  LET hyusd_mint_account == account_spl_get(account_map, "HYUSD")
      xsol_mint_account == account_spl_get(account_map, "XSOL")
      jitosol_header == account_map_get(account_map, "LST_HEADER_JITOSOL")
      sol_usd == account_map_get(account_map, "SOL_USD_PYTH_FEED")
      shyusd_mint_account == account_spl_get(account_map, "SHYUSD")
      hyusd_pool == account_spl_get(account_map, "HYUSD_POOL")
      xsol_pool == account_spl_get(account_map, "XSOL_POOL")
      pool_config == account_map_get(account_map, "POOL_CONFIG")
  IN  IF ~hyusd_mint_account.ok THEN [res |-> hyusd_mint_account, self |-> self]
      ELSE IF ~xsol_mint_account.ok THEN [res |-> xsol_mint_account, self |-> self]
      ELSE IF ~jitosol_header.ok THEN [res |-> jitosol_header, self |-> self]
      ELSE IF ~sol_usd.ok THEN [res |-> sol_usd, self |-> self]
      ELSE IF ~shyusd_mint_account.ok THEN [res |-> shyusd_mint_account, self |-> self]
      ELSE IF ~hyusd_pool.ok THEN [res |-> hyusd_pool, self |-> self]
      ELSE IF ~xsol_pool.ok THEN [res |-> xsol_pool, self |-> self]
      ELSE IF ~pool_config.ok THEN [res |-> pool_config, self |-> self]
      ELSE [res |-> Ok(0),
            self |-> [self EXCEPT !.hyusd_mint = Ok(hyusd_mint_account.val),
                                  !.xsol_mint = Ok(xsol_mint_account.val),
                                  !.shyusd_mint = Ok(shyusd_mint_account.val),
                                  !.jitosol_header = Ok(jitosol_header.val),
                                  !.sol_usd = Ok(sol_usd.val),
                                  !.hyusd_pool = Ok(hyusd_pool.val),
                                  !.xsol_pool = Ok(xsol_pool.val),
                                  !.pool_config = Ok(pool_config.val)]]

\* the nine pairs quote serves
SupportedPairs ==
  {<<"JITOSOL", "HYUSD">>, <<"HYUSD", "JITOSOL">>, <<"JITOSOL", "XSOL">>,
   <<"XSOL", "JITOSOL">>, <<"HYUSD", "XSOL">>, <<"XSOL", "HYUSD">>, <<"HYUSD", "SHYUSD">>,
   <<"SHYUSD", "HYUSD">>, <<"SHYUSD", "JITOSOL">>}

Unsupported == Err("Unsupported quote pair")

\* the arms of the match in quote: the results the pair's quote can give on the
\* context c, the accessors of an arm being evaluated in the order of its arguments
quote_arm(self, c, input_mint, output_mint, amount) ==
  LET header == accessor(self, "jitosol_header")
      shares == accessor(self, "shyusd_mint")
      hpool == accessor(self, "hyusd_pool")
      xpool == accessor(self, "xsol_pool")
      config == accessor(self, "pool_config")
      pair == <<input_mint, output_mint>>
  IN  IF pair = <<"JITOSOL", "HYUSD">>
      THEN IF ~header.ok THEN {header} ELSE {hyusd_mint(c, header.val, amount)}
      ELSE IF pair = <<"HYUSD", "JITOSOL">>
      THEN IF ~header.ok THEN {header} ELSE {hyusd_redeem(c, header.val, amount)}
      ELSE IF pair = <<"JITOSOL", "XSOL">>
      THEN IF ~header.ok THEN {header} ELSE {xsol_mint(c, header.val, amount)}
      ELSE IF pair = <<"XSOL", "JITOSOL">>
      THEN IF ~header.ok THEN {header} ELSE {xsol_redeem(c, header.val, amount)}
      ELSE IF pair = <<"HYUSD", "XSOL">> THEN {hyusd_xsol_swap(c, amount)}
      ELSE IF pair = <<"XSOL", "HYUSD">> THEN {xsol_hyusd_swap(c, amount)}
      ELSE IF pair = <<"HYUSD", "SHYUSD">>
      THEN IF ~shares.ok THEN {shares}
           ELSE IF ~hpool.ok THEN {hpool}
           ELSE IF ~xpool.ok THEN {xpool}
           ELSE {shyusd_mint(c, shares.val, hpool.val, xpool.val, amount)}
      ELSE IF pair = <<"SHYUSD", "HYUSD">>
      THEN IF ~shares.ok THEN {shares}
           ELSE IF ~hpool.ok THEN {hpool}
           ELSE IF ~xpool.ok THEN {xpool}
           ELSE IF ~config.ok THEN {config}
           ELSE {shyusd_redeem(shares.val, hpool.val, xpool.val, config.val, amount)}
      ELSE IF pair = <<"SHYUSD", "JITOSOL">>
      THEN IF ~shares.ok THEN {shares}
           ELSE IF ~hpool.ok THEN {hpool}
           ELSE IF ~xpool.ok THEN {xpool}
           ELSE IF ~config.ok THEN {config}
           ELSE IF ~header.ok THEN {header}
           ELSE shyusd_redeem_lst(c, shares.val, hpool.val, xpool.val, config.val,
                                  header.val, amount)
      ELSE {Unsupported}

\* mutant: the pair is matched before the context is loaded
quote_pair_first(self, input_mint, output_mint, amount) ==
  LET c == load_exchange_ctx(self)
  IN  IF <<input_mint, output_mint>> \notin SupportedPairs THEN {Unsupported}
      ELSE IF <<input_mint, output_mint>> = <<"SHYUSD", "HYUSD">>
      THEN quote_arm(self, c.val, input_mint, output_mint, amount)
      ELSE IF ~c.ok THEN {c}
      ELSE quote_arm(self, c.val, input_mint, output_mint, amount)

\* HyloJupiterClient::quote: the results it can give
quote(self, input_mint, output_mint, amount) ==
  LET c == load_exchange_ctx(self)
  IN  IF ~c.ok THEN {c} ELSE quote_arm(self, c.val, input_mint, output_mint, amount)

\* the protocol accounts a client is constructed from: the collateral cache is
\* of the clock's epoch or of the one before
ProtocolAccounts ==
  { [total_sol_cache |-> [total_sol |-> MaxTotalSol, epoch |-> e],
     stability_threshold_1 |-> cfg.stability_controller.threshold_1,
     stability_threshold_2 |-> cfg.stability_controller.threshold_2,
     oracle_interval_secs |-> oc.interval_secs,
     oracle_conf_tolerance |-> oc.conf_tolerance,
     stablecoin_fees |-> cfg.stablecoin_fees,
     levercoin_fees |-> cfg.levercoin_fees] :
      e \in {ClockEpoch - 1, ClockEpoch}, cfg \in Configs, oc \in OracleConfigs }

\* a protocol account whose thresholds do not descend
Misconfigured ==
  [(CHOOSE p \in ProtocolAccounts : TRUE) EXCEPT !.stability_threshold_1 = One9,
                                                 !.stability_threshold_2 = One9]

KeyedAccounts ==
  {Account(Ok(p)) : p \in ProtocolAccounts \cup {Misconfigured}} \cup {Undecodable}

\* mints a quote is asked between: the four reserve mints and a foreign one
QuoteMints == {"JITOSOL", "HYUSD", "XSOL", "SHYUSD", "USDC"}

QuoteAmounts == {0, MaxAmount}

\* account maps with every account decodable
GoodMaps ==
  { [k \in {"HYUSD", "XSOL", "LST_HEADER_JITOSOL", "SOL_USD_PYTH_FEED", "SHYUSD",
            "HYUSD_POOL", "XSOL_POOL", "POOL_CONFIG", "HYLO"} |->
       IF k = "HYUSD" THEN Account(Ok([supply |-> hs]))
       ELSE IF k = "XSOL" THEN Account(Ok([supply |-> MaxSupply - 2]))
       ELSE IF k = "LST_HEADER_JITOSOL" THEN Account(Ok(h))
       ELSE IF k = "SOL_USD_PYTH_FEED"
       THEN Account(Ok([price |-> 5 * One8, conf |-> 0, publish_time |-> pt]))
       ELSE IF k = "SHYUSD" THEN Account(Ok([supply |-> ss]))
       ELSE IF k = "HYUSD_POOL" THEN Account(Ok([amount |-> MaxSupply]))
       ELSE IF k = "XSOL_POOL" THEN Account(Ok([amount |-> xp]))
       ELSE IF k = "POOL_CONFIG" THEN Account(Ok([withdrawal_fee |-> Rate(1)]))
       ELSE Account(Ok([total_sol_cache |-> [total_sol |-> MaxTotalSol, epoch |-> ClockEpoch + 1]])) ] :
      hs \in {0, MaxSupply - 2}, h \in LstHeaders,
      pt \in {ClockTime - OracleInterval - 1, ClockTime}, ss \in PoolSupplies,
      xp \in PoolBalances }

\* the map every defective map is made from
BaseMap ==
  CHOOSE m \in GoodMaps :
    /\ m["HYUSD"].data.val.supply = 0
    /\ m["SOL_USD_PYTH_FEED"].data.val.publish_time = ClockTime
    /\ m["LST_HEADER_JITOSOL"].data.val.price_sol.epoch = ClockEpoch
    /\ m["SHYUSD"].data.val.supply = 0
    /\ m["XSOL_POOL"].data.val.amount = 0

\* account maps with one account missing or undecodable
DefectiveMaps ==
  { [BaseMap EXCEPT ![get_accounts_to_update[i]] = d] :
      i \in 1 .. 8, d \in {Absent, Undecodable} }

AccountMaps == GoodMaps \cup DefectiveMaps

\* the client as from_keyed_account returns it
ClientInit ==
  /\ \E k \in KeyedAccounts :
       /\ from_keyed_account(k, Clock).ok
       /\ acct = from_keyed_account(k, Clock).val
  /\ ctx = Unloaded
  /\ out = NoCall

\* update is called with an account map
ClientUpdate ==
  /\ out = NoCall
  /\ \E m \in AccountMaps :
       /\ out' = Call("update", [account_map |-> m], update(acct, m).res)
       /\ acct' = update(acct, m).self
  /\ UNCHANGED ctx

\* quote is called: the context it loads and the result it returns
ClientQuote ==
  /\ out = NoCall
  /\ \E i \in QuoteMints, o \in QuoteMints, a \in QuoteAmounts :
       \E res \in quote(acct, i, o, a) :
         out' = Call("quote", [input_mint |-> i, output_mint |-> o, amount |-> a], res)
  /\ ctx' = load_exchange_ctx(acct)
  /\ UNCHANGED acct

\* the shared clock moves to the next epoch between two calls
ClockAdvance ==
  /\ out = NoCall
  /\ acct.clock.epoch <= ClockEpoch
  /\ acct' = [acct EXCEPT !.clock.epoch = acct.clock.epoch + 1]
  /\ UNCHANGED <<ctx, out>>

\* the call returns and the context it loaded is dropped
ClientReturn ==
  /\ out # NoCall
  /\ out' = NoCall
  /\ ctx' = Unloaded
  /\ UNCHANGED acct

ClientNext ==
  \/ ClientUpdate
  \/ ClientQuote
  \/ ClockAdvance
  \/ ClientReturn

ClientSpec == ClientInit /\ [][ClientNext]_vars

-----------------------------------------------------------------------------
(* Properties.                                                             *)

Loaded == acct.loaded
C == ctx.val
Threshold1 == C.stability_controller.threshold_1
Threshold2 == C.stability_controller.threshold_2

\* the mode the thresholds t1 > t2 give the ratio r
ModeOf(r, t1, t2) == IF r >= t1 THEN Stable ELSE IF r >= t2 THEN Decay ELSE Depeg

\* C1: the mode selected for fees is the worse of the current and the projected
\* mode: it is one of the two and is healthier than neither
C1_SelectsWorseMode ==
  out.op = "select_stability_mode_for_fees" =>
    /\ out.res.val \in {C.stability_mode, out.args.projected}
    /\ out.res.val >= C.stability_mode
    /\ out.res.val >= out.args.projected
    /\ out.args.projected < C.stability_mode => out.res.val = C.stability_mode

C1_Witness ==
  /\ out.op = "select_stability_mode_for_fees"
  /\ C.stability_mode = Decay
  /\ out.args.projected = Stable
  /\ out.res.val = Decay

FeeOps ==
  {"stablecoin_mint_fee", "stablecoin_redeem_fee", "levercoin_mint_fee",
   "levercoin_redeem_fee", "levercoin_to_stablecoin_fee", "stablecoin_to_levercoin_fee"}

\* C2: a successful fee operation splits exactly the amount it was given, and the
\* withdrawal fee of shyusd_redeem splits exactly the pro-rata withdrawal
C2_FeeExtractSums ==
  /\ out.op \in FeeOps /\ out.res.ok =>
       out.res.val.fees_extracted + out.res.val.amount_remaining = out.args.amount
  /\ out.op = "shyusd_redeem" /\ out.res.ok =>
       out.res.val.fee_amount + out.res.val.out_amount =
         (out.args.amount * out.args.hyusd_pool.amount) \div out.args.shyusd_mint.supply

C2_Witness ==
  /\ out.op = "levercoin_to_stablecoin_fee"
  /\ out.res.ok
  /\ out.res.val.fees_extracted > 0
  /\ out.res.val.amount_remaining > 0
  /\ out.res.val.fees_extracted * One4
       > out.args.amount * C.levercoin_fees.swap_to_stablecoin[C.stability_mode]

\* the collateral ratio of total_sol at the context's lower price over supply
RatioOf(total_sol, supply) ==
  (((total_sol * C.sol_usd_price.lower) \div One8) * One9) \div (supply * (One9 \div One6))

\* C3: load and projected_stability_mode classify the ratio r by the thresholds:
\* Stable from threshold_1 up, Decay from threshold_2 up, Depeg below; and of two
\* ratios the lower never gets the healthier mode
C3_ModeByThresholds ==
  /\ ctx.ok =>
       /\ C.collateral_ratio = RatioOf(acct.total_sol_cache.total_sol, acct.hyusd_mint.supply)
       /\ C.stability_mode = ModeOf(C.collateral_ratio, Threshold1, Threshold2)
  /\ out.op = "projected_stability_mode" /\ out.res.ok =>
       LET r == RatioOf(out.args.new_total_sol, out.args.new_total_stablecoin)
       IN  /\ r >= Threshold1 => out.res.val = Stable
           /\ r >= Threshold2 /\ r < Threshold1 => out.res.val = Decay
           /\ r < Threshold2 => out.res.val = Depeg
           /\ r <= C.collateral_ratio => out.res.val >= C.stability_mode
           /\ r >= C.collateral_ratio => out.res.val <= C.stability_mode

C3_Witness ==
  /\ out.op = "projected_stability_mode"
  /\ out.res.ok
  /\ RatioOf(out.args.new_total_sol, out.args.new_total_stablecoin) = Threshold2
  /\ out.res.val = Decay
  /\ C.sol_usd_price.lower < C.sol_usd_price.upper

\* C4: outside Depeg the stablecoin NAV is exactly 1; in Depeg it is the value of
\* the collateral at the lower price over the stablecoin supply
C4_StablecoinNav ==
  out.op = "stablecoin_nav" =>
    /\ C.stability_mode # Depeg => out.res = Ok(One9)
    /\ C.stability_mode = Depeg /\ out.res.ok =>
         out.res.val = RatioOf(C.total_sol, C.stablecoin_supply)

C4_Witness ==
  /\ out.op = "stablecoin_nav"
  /\ C.stability_mode = Decay
  /\ C.collateral_ratio # One9
  /\ out.res = Ok(One9)

\* C5: a context exists only for a cache tagged with the clock's epoch, and then
\* holds the cached total; any other epoch fails with the staleness error
C5_CacheEpoch ==
  Loaded =>
    /\ ctx.ok => /\ acct.total_sol_cache.epoch = acct.clock.epoch
                 /\ C.total_sol = acct.total_sol_cache.total_sol
    /\ acct.total_sol_cache.epoch # acct.clock.epoch =>
         ~ctx.ok /\ ctx.err = "StaleCollateralCache"

C5_Witness ==
  /\ Loaded
  /\ acct.total_sol_cache.epoch > acct.clock.epoch
  /\ acct.sol_usd.publish_time = acct.clock.unix_timestamp
  /\ acct.sol_usd.conf = 0
  /\ acct.hyusd_mint.supply > 0
  /\ ctx = Err("StaleCollateralCache")

\* the price update is older than the staleness window
OracleStale ==
  acct.clock.unix_timestamp - acct.sol_usd.publish_time > acct.oracle_config.interval_secs

\* C6: a price update older than the staleness window fails the load, whatever
\* the other inputs
C6_StaleOracleFails == Loaded /\ OracleStale => ~ctx.ok

C6_Witness ==
  /\ Loaded
  /\ OracleStale
  /\ acct.total_sol_cache.epoch = acct.clock.epoch
  /\ acct.sol_usd.conf = 0
  /\ acct.hyusd_mint.supply > 0
  /\ ctx = Err("StalePrice")

\* the sub-steps of load, each on its own
StepCache == get_validated(acct.total_sol_cache, acct.clock.epoch)
StepOracle == query_pyth_price(acct.clock, acct.sol_usd, acct.oracle_config)
StepRatio ==
  math_collateral_ratio(StepCache.val, StepOracle.val.lower, acct.hyusd_mint.supply)
StepMode == stability_mode(acct.config.stability_controller, StepRatio.val)

\* C7: load returns the error of the first sub-step that fails, in the order
\* cache, oracle, collateral ratio, stability mode, and a context only if none fails
C7_FirstFailure ==
  Loaded =>
    /\ ~StepCache.ok => ctx = StepCache
    /\ StepCache.ok /\ ~StepOracle.ok => ctx = StepOracle
    /\ StepCache.ok /\ StepOracle.ok /\ ~StepRatio.ok => ctx = StepRatio
    /\ StepCache.ok /\ StepOracle.ok /\ StepRatio.ok /\ ~StepMode.ok => ctx = StepMode
    /\ ctx.ok <=> StepCache.ok /\ StepOracle.ok /\ StepRatio.ok /\ StepMode.ok

C7_Witness ==
  /\ Loaded
  /\ ~StepCache.ok
  /\ ~StepOracle.ok
  /\ StepOracle.err = "StalePrice"
  /\ ctx = Err("StaleCollateralCache")

\* C8: validate_stablecoin_amount returns the request exactly when it is at most
\* max_mintable_stablecoin; a hyusd_mint quote pays out at most that ceiling and
\* an xsol_hyusd_swap quote's output plus fee is at most max_swappable_stablecoin
C8_Ceilings ==
  /\ out.op = "validate_stablecoin_amount" =>
       LET max == max_mintable_stablecoin(C)
       IN  /\ max.ok /\ out.args.amount <= max.val => out.res = Ok(out.args.amount)
           /\ ~max.ok \/ out.args.amount > max.val => ~out.res.ok
  /\ out.op = "hyusd_mint" /\ out.res.ok =>
       /\ max_mintable_stablecoin(C).ok
       /\ out.res.val.out_amount <= max_mintable_stablecoin(C).val
  /\ out.op = "xsol_hyusd_swap" /\ out.res.ok =>
       /\ max_swappable_stablecoin(C).ok
       /\ out.res.val.out_amount + out.res.val.fee_amount <= max_swappable_stablecoin(C).val

C8_Witness ==
  /\ out.op = "validate_stablecoin_amount"
  /\ max_mintable_stablecoin(C).ok
  /\ out.args.amount = max_mintable_stablecoin(C).val
  /\ out.args.amount > 0
  /\ out.res = Ok(out.args.amount)

\* the collateral ratio once x stablecoin (N6) is minted together with the
\* collateral that backs it at the stablecoin NAV, collateral valued at `price`
RatioAfterMint(x, price) ==
  (((C.total_sol * price) \div One8
      + CeilDiv(x * (One9 \div One6) * stablecoin_nav(C).val, One9)) * One9)
    \div ((C.stablecoin_supply + x) * (One9 \div One6))

\* C9 as stated: minting up to max_mintable_stablecoin never takes the collateral
\* ratio (the collateral valued at the lower price, as load values it) below
\* threshold_2
C9_AsStated ==
  out.op = "max_mintable_stablecoin" /\ out.res.ok /\ stablecoin_nav(C).ok =>
    \A x \in 0 .. out.res.val : RatioAfterMint(x, C.sol_usd_price.lower) >= Threshold2

\* C9 amended: outside Depeg, with the collateral valued at the upper price (the
\* price the ceiling is computed at), minting any amount up to
\* max_mintable_stablecoin keeps the ratio at or above threshold_2 and minting one
\* token unit more takes it below: the ceiling is exact up to rounding
C9_CeilingAtUpperPrice ==
  out.op = "max_mintable_stablecoin" /\ out.res.ok /\ C.stability_mode # Depeg =>
    /\ \A x \in 0 .. out.res.val : RatioAfterMint(x, C.sol_usd_price.upper) >= Threshold2
    /\ RatioAfterMint(out.res.val + 1, C.sol_usd_price.upper) < Threshold2

C9_Witness ==
  /\ out.op = "max_mintable_stablecoin"
  /\ out.res.ok
  /\ out.res.val > 1
  /\ C.stability_mode # Depeg
  /\ C.sol_usd_price.lower < C.sol_usd_price.upper
  /\ RatioAfterMint(out.res.val, C.sol_usd_price.upper) = Threshold2
  /\ RatioAfterMint(out.res.val, C.sol_usd_price.lower) < Threshold2

\* C10: a swap amount that validate_stablecoin_swap_amount accepts leaves the
\* collateral ratio of the unchanged collateral over the grown supply at or above
\* threshold_2, so the projected mode is not Depeg
C10_SwapKeepsFloor ==
  out.op = "validate_stablecoin_swap_amount" /\ out.res.ok =>
    /\ out.res.val = out.args.amount
    /\ RatioOf(C.total_sol, C.stablecoin_supply + out.res.val) >= Threshold2
    /\ projected_stability_mode(C, C.total_sol, C.stablecoin_supply + out.res.val)
         \in {Ok(Stable), Ok(Decay)}

C10_Witness ==
  /\ out.op = "validate_stablecoin_swap_amount"
  /\ out.res.ok
  /\ out.res.val > 0
  /\ C.stability_mode = Stable
  /\ C.sol_usd_price.lower < C.sol_usd_price.upper
  /\ projected_stability_mode(C, C.total_sol, C.stablecoin_supply + out.res.val) = Ok(Decay)
  /\ RatioOf(C.total_sol, C.stablecoin_supply + out.res.val + 1) < Threshold2

QuoteOps ==
  {"hyusd_mint", "hyusd_redeem", "xsol_mint", "xsol_redeem", "hyusd_xsol_swap",
   "xsol_hyusd_swap"}

\* the quotes whose input is converted whole, before any fee is extracted
ConvertFirstOps == {"hyusd_redeem", "xsol_redeem", "xsol_hyusd_swap"}

\* the asset the user of the last quote supplies, and the asset the user receives
InputAsset ==
  IF out.op \in {"hyusd_mint", "xsol_mint"} THEN out.args.lst_header.mint
  ELSE IF out.op \in {"hyusd_redeem", "hyusd_xsol_swap"} THEN "HYUSD"
  ELSE "XSOL"

OutputAsset ==
  IF out.op \in {"hyusd_redeem", "xsol_redeem"} THEN out.args.lst_header.mint
  ELSE IF out.op \in {"hyusd_mint", "xsol_hyusd_swap"} THEN "HYUSD"
  ELSE "XSOL"

\* the conversion of the last quote, applied to `amount` of its input asset
Converted(amount) ==
  IF out.op = "hyusd_mint"
  THEN lst_to_token(token_conversion(C, out.args.lst_header.price_sol).val, amount,
                    stablecoin_nav(C).val)
  ELSE IF out.op = "hyusd_redeem"
  THEN token_to_lst(token_conversion(C, out.args.lst_header.price_sol).val, amount,
                    stablecoin_nav(C).val)
  ELSE IF out.op = "xsol_mint"
  THEN lst_to_token(token_conversion(C, out.args.lst_header.price_sol).val, amount,
                    levercoin_mint_nav(C).val)
  ELSE IF out.op = "xsol_redeem"
  THEN token_to_lst(token_conversion(C, out.args.lst_header.price_sol).val, amount,
                    levercoin_redeem_nav(C).val)
  ELSE IF out.op = "hyusd_xsol_swap"
  THEN stable_to_lever(swap_conversion(C).val, amount)
  ELSE lever_to_stable(swap_conversion(C).val, amount)

\* the fee of the last quote is in the input asset and is taken out of in_amount:
\* what is converted to the output is in_amount less the fee
FeeFromInput ==
  /\ out.res.val.fee_mint = InputAsset
  /\ out.res.val.in_amount = out.args.amount
  /\ out.res.val.fee_amount <= out.res.val.in_amount
  /\ Converted(out.res.val.in_amount - out.res.val.fee_amount) = Ok(out.res.val.out_amount)

\* the fee of the last quote is in the output asset and is taken out of the
\* converted in_amount: fee and output sum to the conversion of the whole input
FeeFromOutput ==
  /\ out.res.val.fee_mint = OutputAsset
  /\ out.res.val.in_amount = out.args.amount
  /\ Converted(out.res.val.in_amount)
       = Ok(out.res.val.fee_amount + out.res.val.out_amount)

\* C11 as stated: in every mint, redeem and swap quote the fee is in the input
\* asset and fee_amount plus the amount converted to the output is in_amount
C11_AsStated == out.op \in QuoteOps /\ out.res.ok => FeeFromInput

\* C11 amended: the mint quotes and hyusd_xsol_swap take the fee from the input
\* amount; the redeem quotes and xsol_hyusd_swap convert the whole input and take
\* the fee, in the output asset, from the converted amount
C11_FeeSide ==
  /\ out.op \in QuoteOps \ ConvertFirstOps /\ out.res.ok => FeeFromInput
  /\ out.op \in ConvertFirstOps /\ out.res.ok => FeeFromOutput

C11_Witness ==
  /\ out.op = "hyusd_xsol_swap"
  /\ out.res.ok
  /\ out.res.val.fee_amount > 0
  /\ out.res.val.out_amount > 0
  /\ out.res.val.fee_mint = "HYUSD"

\* the context was loaded without a levercoin mint
NoLevercoin == ctx.ok /\ ~C.levercoin_supply.ok

\* the operations of the context that read the levercoin supply
LevercoinSupplyOps ==
  {"levercoin_supply", "levercoin_mint_nav", "levercoin_redeem_nav", "swap_conversion",
   "sol_to_levercoin", "stability_pool_cap"}

\* the fee operations of the levercoin: none of them reads the levercoin supply
LevercoinFeeOps ==
  {"levercoin_mint_fee", "levercoin_redeem_fee", "levercoin_to_stablecoin_fee",
   "stablecoin_to_levercoin_fee"}

\* the quotes that mint, redeem or swap levercoin
LevercoinQuoteOps == {"xsol_mint", "xsol_redeem", "hyusd_xsol_swap", "xsol_hyusd_swap"}

\* C12 as stated: without a levercoin mint every levercoin operation of the
\* context fails, the four levercoin fee operations included
C12_AsStated ==
  NoLevercoin /\ out.op \in LevercoinSupplyOps \cup LevercoinFeeOps => ~out.res.ok

\* C12 amended: without a levercoin mint the operations that read the levercoin
\* supply fail for every argument, and so does every levercoin quote; the four
\* levercoin fee operations are not among them
C12_NoLevercoinFails ==
  NoLevercoin /\ out.op \in LevercoinSupplyOps \cup LevercoinQuoteOps => ~out.res.ok

C12_Witness ==
  /\ NoLevercoin
  /\ out.op = "stability_pool_cap"
  /\ out.args.levercoin_in_pool = 0
  /\ C.stability_mode = Stable
  /\ out.res = Err("LevercoinNav")

\* C13: levercoin_mint_nav and levercoin_redeem_nav return the error of a missing
\* levercoin supply (LevercoinNav) if and only if the supply is absent; a NAV
\* computation that fails with the supply present returns another error
C13_MissingSupplyDistinct ==
  out.op \in {"levercoin_mint_nav", "levercoin_redeem_nav"} /\ ctx.ok =>
    (out.res = Err("LevercoinNav") <=> ~C.levercoin_supply.ok)

\* the collateral ratio of the context is below threshold_2
BelowFloor == ctx.ok /\ C.collateral_ratio < Threshold2

\* what hyusd_redeem converts the last call's in_amount to at the NAV `nav`
RedeemedAt(nav) ==
  token_to_lst(token_conversion(C, out.args.lst_header.price_sol).val, out.args.amount, nav)

Ratio145 == (145 * One9) \div 100
Ratio155 == (155 * One9) \div 100

\* C15: in the scenario load yields the collateral ratio 1.333... (4/3 cut to
\* the scale) and the mode Decay; an operation that projects the ratio 1.45 has
\* projected mode Decay and fee mode Decay; one that projects 1.55 has projected
\* mode Stable and fee mode Decay
C15_Scenario ==
  acct = Scenario =>
    /\ ctx.ok
    /\ C.total_sol * C.sol_usd_price.lower * 3 * One6 = 4 * C.stablecoin_supply * One8 * One9
    /\ C.sol_usd_price.lower = 20 * One8
    /\ C.collateral_ratio = (4 * One9) \div 3
    /\ C.stability_mode = Decay
    /\ out.op = "projected_stability_mode" /\ out.res.ok
         /\ RatioOf(out.args.new_total_sol, out.args.new_total_stablecoin) = Ratio145 =>
         /\ out.res = Ok(Decay)
         /\ select_stability_mode_for_fees(C, out.res.val) = Decay
    /\ out.op = "projected_stability_mode" /\ out.res.ok
         /\ RatioOf(out.args.new_total_sol, out.args.new_total_stablecoin) = Ratio155 =>
         /\ out.res = Ok(Stable)
         /\ select_stability_mode_for_fees(C, out.res.val) = Decay
    /\ out.op = "select_stability_mode_for_fees" /\ out.args.projected \in {Stable, Decay} =>
         out.res = Ok(Decay)

C15_Witness ==
  /\ acct = Scenario
  /\ out.op = "projected_stability_mode"
  /\ out.res = Ok(Stable)
  /\ RatioOf(out.args.new_total_sol, out.args.new_total_stablecoin) = Ratio155
  /\ C.collateral_ratio = (4 * One9) \div 3

\* the levercoin NAV of the context with the collateral valued at `price`: the
\* value locked less the stablecoin liability, over the levercoin supply
LevercoinNavAt(price) ==
  ((((C.total_sol * price) \div One8)
      - (C.stablecoin_supply * (One9 \div One6) * stablecoin_nav(C).val) \div One9) * One9)
    \div (C.levercoin_supply.val * (One9 \div One6))

\* C16: the levercoin mint NAV is the NAV at the upper price and the redeem NAV
\* the NAV at the lower price, so where both succeed the redeem NAV is at most
\* the mint NAV, and the range swap_conversion builds has lower = redeem NAV,
\* upper = mint NAV and lower <= upper
C16_NavAsymmetry ==
  /\ out.op = "levercoin_mint_nav" /\ out.res.ok =>
       /\ out.res.val = LevercoinNavAt(C.sol_usd_price.upper)
       /\ levercoin_redeem_nav(C).ok => levercoin_redeem_nav(C).val <= out.res.val
  /\ out.op = "levercoin_redeem_nav" /\ out.res.ok =>
       /\ out.res.val = LevercoinNavAt(C.sol_usd_price.lower)
       /\ levercoin_mint_nav(C).ok => out.res.val <= levercoin_mint_nav(C).val
  /\ out.op = "swap_conversion" /\ out.res.ok =>
       /\ out.res.val.levercoin_nav.lower = LevercoinNavAt(C.sol_usd_price.lower)
       /\ out.res.val.levercoin_nav.upper = LevercoinNavAt(C.sol_usd_price.upper)
       /\ out.res.val.levercoin_nav.lower <= out.res.val.levercoin_nav.upper

C16_Witness ==
  /\ out.op = "swap_conversion"
  /\ out.res.ok
  /\ C.sol_usd_price.lower < C.sol_usd_price.upper
  /\ out.res.val.levercoin_nav.lower > 0
  /\ out.res.val.levercoin_nav.lower < out.res.val.levercoin_nav.upper

\* the last call is a conversion of an LST amount to tokens and back that succeeded
RoundTrip == out.op = "token_conversion" /\ out.res.ok

\* C17 as stated: the round trip LST -> token -> LST at one NAV returns an amount
\* within one unit (of 9 decimals) of the original
C17_AsStated ==
  RoundTrip =>
    /\ out.res.val.lst - out.args.amount <= 1
    /\ out.args.amount - out.res.val.lst <= 1

\* C17 amended: the round trip never returns more than the original, and falls
\* short of it by at most the share of the oracle spread in the amount, plus the
\* LST worth of one smallest token unit at the NAV, plus the roundings of the
\* steps (one unit, two units of SOL and two units of USD, in LST); the
\* inequality is stated multiplied by upper price * LST price
C17_RoundTripLoss ==
  RoundTrip =>
    LET a == out.args.amount
        back == out.res.val.lst
        lower == C.sol_usd_price.lower
        upper == C.sol_usd_price.upper
        p == out.args.lst.price
    IN  /\ back <= a
        /\ (a - back) * upper * p
             <= a * (upper - lower) * p
                  + (One9 \div One6) * out.args.nav * One8
                  + upper * p + 2 * One9 * upper + 2 * One8 * One9

C17_Witness ==
  /\ RoundTrip
  /\ C.sol_usd_price.lower = C.sol_usd_price.upper
  /\ out.res.val.token > 0
  /\ out.args.amount - out.res.val.lst > 1

\* C18: the collateral ratio fails on a zero stablecoin supply: load fails
\* whenever the stablecoin mint's supply is 0 (with a division by zero once the
\* cache, the oracle and the value locked are good), projected_stability_mode
\* fails whenever new_total_stablecoin is 0, and stablecoin_to_levercoin_fee
\* fails when the amount is the whole stablecoin supply
C18_ZeroSupplyFails ==
  /\ Loaded /\ acct.hyusd_mint.supply = 0 =>
       /\ ~ctx.ok
       /\ StepCache.ok /\ StepOracle.ok
            /\ math_total_value_locked(StepCache.val, StepOracle.val.lower).ok =>
            ctx = Err("DivisionByZero")
  /\ out.op = "projected_stability_mode" /\ out.args.new_total_stablecoin = 0 =>
       ~out.res.ok
  /\ out.op = "stablecoin_to_levercoin_fee" /\ out.args.amount = C.stablecoin_supply =>
       ~out.res.ok

C18_Witness ==
  /\ out.op = "stablecoin_to_levercoin_fee"
  /\ out.args.amount = C.stablecoin_supply
  /\ C.total_sol > 0
  /\ out.res = Err("DivisionByZero")

\* the largest growth of the stablecoin supply that keeps the value locked (at
\* the lower price) over the supply at `threshold`, as a token amount
SwapCeilingAgainst(threshold) ==
  checked_sub(((((C.total_sol * C.sol_usd_price.lower) \div One8) * One9) \div threshold)
                \div (One9 \div One6),
              C.stablecoin_supply)

\* C19: where total_value_locked succeeds, max_swappable_stablecoin_to_next_threshold
\* fails with NoNextStabilityThreshold exactly in Depeg; in Stable it is the
\* ceiling against threshold_1 and in Decay the ceiling against threshold_2
C19_NoNextThreshold ==
  out.op = "max_swappable_stablecoin_to_next_threshold" /\ total_value_locked(C).ok =>
    /\ out.res = Err("NoNextStabilityThreshold") <=> C.stability_mode = Depeg
    /\ C.stability_mode = Stable => out.res = SwapCeilingAgainst(Threshold1)
    /\ C.stability_mode = Decay => out.res = SwapCeilingAgainst(Threshold2)

C19_Witness ==
  /\ out.op = "max_swappable_stablecoin_to_next_threshold"
  /\ total_value_locked(C).ok
  /\ C.stability_mode = Depeg
  /\ C.total_sol > 0
  /\ out.res = Err("NoNextStabilityThreshold")

\* C20: no call changes the context after load: in every step from a loaded
\* context the context and the accounts it was loaded from stay as they are, and
\* whatever calls came before, the context is the one load gave for the accounts,
\* so a call sees the same fields
C20_ContextImmutable ==
  [][/\ ctx.ok => ctx' = ctx /\ acct' = acct
     /\ Loaded' => ctx' = LoadOf(acct')]_vars

C20_Witness ==
  /\ ctx.ok
  /\ ctx = LoadOf(acct)
  /\ out.op = "stablecoin_mint_fee"
  /\ out.res.ok
  /\ out.res.val.fees_extracted > 0
  /\ C.total_sol = acct.total_sol_cache.total_sol

\* C21: shyusd_redeem returns a quote only for a stability pool that holds no
\* levercoin; for any other levercoin balance it returns the one refusal for
\* every amount, also where the withdrawal itself could not be computed
Blocked == Err("sHYUSD/hyUSD not possible due to xSOL in stability pool.")

C21_RedeemBlocked ==
  out.op = "shyusd_redeem" =>
    /\ out.res.ok => out.args.xsol_pool.amount = 0
    /\ out.args.xsol_pool.amount # 0 => out.res = Blocked
    /\ out.args.xsol_pool.amount = 0 => out.res # Blocked

C21_Witness ==
  /\ out.op = "shyusd_redeem"
  /\ out.args.xsol_pool.amount # 0
  /\ out.args.shyusd_mint.supply = 0
  /\ out.args.amount > 0
  /\ out.res = Blocked

\* C22: the withdrawal of shyusd_redeem and shyusd_redeem_lst is the pro-rata
\* share floor(shares_in * pool_balance / share_supply): at most the pool
\* balance for shares within the supply, the whole balance for the whole
\* supply, and no quote for a share supply of 0
ProRata(shares_in, share_supply, pool_balance) == (shares_in * pool_balance) \div share_supply

C22_ProRata ==
  /\ out.op = "amount_token_to_withdraw" =>
       /\ out.args.share_supply = 0 => ~out.res.ok
       /\ out.res.ok =>
            /\ out.res.val = ProRata(out.args.shares_in, out.args.share_supply,
                                     out.args.pool_balance)
            /\ out.args.shares_in <= out.args.share_supply =>
                 out.res.val <= out.args.pool_balance
            /\ out.args.shares_in = out.args.share_supply =>
                 out.res.val = out.args.pool_balance
  /\ out.op \in {"shyusd_redeem", "shyusd_redeem_lst"} /\ out.args.shyusd_mint.supply = 0 =>
       ~out.res.ok
  /\ out.op = "shyusd_redeem" /\ out.res.ok =>
       out.res.val.out_amount + out.res.val.fee_amount =
         ProRata(out.args.amount, out.args.shyusd_mint.supply, out.args.hyusd_pool.amount)

C22_Witness ==
  /\ out.op = "shyusd_redeem"
  /\ out.res.ok
  /\ out.args.amount > 0
  /\ out.args.amount < out.args.shyusd_mint.supply
  /\ out.args.hyusd_pool.amount > out.args.shyusd_mint.supply
  /\ (out.args.amount * out.args.hyusd_pool.amount) % out.args.shyusd_mint.supply # 0
  /\ out.res.val.out_amount + out.res.val.fee_amount > 0

\* C23: in every loaded context the collateral ratio is the ratio of the
\* context's own collateral, lower price and stablecoin supply, and the mode is
\* the mode the context's thresholds give that ratio: both are derived from the
\* fields loaded with them and from nothing else
C23_DerivedMode ==
  ctx.ok =>
    /\ Ok(C.collateral_ratio) =
         math_collateral_ratio(C.total_sol, C.sol_usd_price.lower, C.stablecoin_supply)
    /\ Ok(C.stability_mode) = stability_mode(C.stability_controller, C.collateral_ratio)
    /\ C.stability_mode = ModeOf(C.collateral_ratio, Threshold1, Threshold2)

C23_Witness ==
  /\ ctx.ok
  /\ C.stability_mode = Decay
  /\ C.collateral_ratio > Threshold2
  /\ C.collateral_ratio < Threshold1
  /\ C.levercoin_supply.ok
  /\ C.levercoin_supply.val # C.stablecoin_supply

\* C24: a projected total that would leave the integer range is a failure, never
\* a wrapped value: the redeem fees fail when the collateral removed exceeds the
\* total collateral, stablecoin_redeem_fee and stablecoin_to_levercoin_fee fail
\* when the stablecoin removed exceeds the supply, the mint fees and
\* levercoin_to_stablecoin_fee fail when a total plus the amount added exceeds
\* the largest integer; no FeeExtract is returned in any of these cases
SolOf(lst_sol_price, amount_lst) == (amount_lst * lst_sol_price.price) \div One9

\* the stablecoin an LST amount is worth, in unbounded arithmetic
StablecoinOf(lst_sol_price, amount_lst) ==
  ((((SolOf(lst_sol_price, amount_lst) * C.sol_usd_price.lower) \div One8) * One9)
     \div stablecoin_nav(C).val) \div (One9 \div One6)

C24_CheckedTotals ==
  /\ out.op \in {"stablecoin_redeem_fee", "levercoin_redeem_fee"}
       /\ SolOf(out.args.lst, out.args.amount) > C.total_sol => ~out.res.ok
  /\ out.op = "stablecoin_redeem_fee" /\ stablecoin_nav(C).ok /\ stablecoin_nav(C).val > 0
       /\ StablecoinOf(out.args.lst, out.args.amount) > C.stablecoin_supply => ~out.res.ok
  /\ out.op = "stablecoin_to_levercoin_fee" /\ out.args.amount > C.stablecoin_supply =>
       ~out.res.ok
  /\ out.op \in {"stablecoin_mint_fee", "levercoin_mint_fee"}
       /\ C.total_sol + SolOf(out.args.lst, out.args.amount) > U64Max => ~out.res.ok
  /\ out.op = "levercoin_to_stablecoin_fee"
       /\ C.stablecoin_supply + out.args.amount > U64Max => ~out.res.ok

C24_Witness ==
  /\ out.op = "levercoin_to_stablecoin_fee"
  /\ C.stablecoin_supply > 1
  /\ C.stablecoin_supply + out.args.amount > U64Max
  /\ out.res = Err("DestinationFeeStablecoin")

\* the mode of the totals a successful levercoin_mint_fee or
\* stablecoin_to_levercoin_fee call projects
ProjectedMode ==
  IF out.op = "levercoin_mint_fee"
  THEN ModeOf(RatioOf(C.total_sol + SolOf(out.args.lst, out.args.amount),
                      C.stablecoin_supply), Threshold1, Threshold2)
  ELSE ModeOf(RatioOf(C.total_sol, C.stablecoin_supply - out.args.amount),
              Threshold1, Threshold2)

\* the fee table levercoin_mint_fee and stablecoin_to_levercoin_fee read
LeverTable ==
  IF out.op = "levercoin_mint_fee" THEN C.levercoin_fees.mint
  ELSE C.levercoin_fees.swap_from_stablecoin

\* C25: levercoin_mint_fee only adds collateral and stablecoin_to_levercoin_fee
\* only removes stablecoin, so when they succeed the projected mode is never
\* worse than the current one and the fee is the current mode's rate applied to
\* the amount, whatever the amount
C25_FeeAtCurrentMode ==
  out.op \in {"levercoin_mint_fee", "stablecoin_to_levercoin_fee"} /\ out.res.ok =>
    /\ out.op = "stablecoin_to_levercoin_fee" => out.args.amount < C.stablecoin_supply
    /\ ProjectedMode <= C.stability_mode
    /\ out.res = FeeExtract_new(LeverTable[C.stability_mode], out.args.amount)

C25_Witness ==
  /\ out.op = "levercoin_mint_fee"
  /\ out.res.ok
  /\ C.stability_mode = Decay
  /\ ProjectedMode = Stable
  /\ LeverTable[Decay] # LeverTable[Stable]
  /\ out.res.val.fees_extracted > 0
  /\ out.res # FeeExtract_new(LeverTable[Stable], out.args.amount)

\* the eight optional fields of a client
Optionals(self) == [i \in 1 .. 8 |-> self[OptionalFields[i]]]

\* every account update reads is in the map and decodes
Decodable(account_map) ==
  \A i \in 1 .. 8 :
    /\ account_map[get_accounts_to_update[i]].present
    /\ account_map[get_accounts_to_update[i]].data.ok

\* C26: update is all-or-nothing: it fails exactly when one of its eight accounts
\* is missing from the map or does not decode, and then none of the eight
\* optional fields changes; when it succeeds every one of the eight fields holds
\* the account of that same map
C26_AllOrNothing ==
  [][out = NoCall /\ out'.op = "update" =>
       /\ out'.res.ok <=> Decodable(out'.args.account_map)
       /\ ~out'.res.ok => Optionals(acct') = Optionals(acct)
       /\ out'.res.ok =>
            \A i \in 1 .. 8 :
              acct'[OptionalFields[i]] =
                Ok(out'.args.account_map[get_accounts_to_update[i]].data.val)]_vars

C26_Witness ==
  /\ out.op = "update"
  /\ ~out.res.ok
  /\ ~out.args.account_map["POOL_CONFIG"].present
  /\ out.args.account_map["HYUSD"].data.ok
  /\ acct.hyusd_mint.ok
  /\ acct.hyusd_mint.val # out.args.account_map["HYUSD"].data.val

\* the protocol parameters from_keyed_account captured
Captured(self) ==
  <<self.total_sol_cache, self.stability_controller, self.oracle_config, self.hyusd_fees,
    self.xsol_fees>>

\* the captured collateral cache is of another epoch than the clock's
CacheStale == acct.clock.epoch # acct.total_sol_cache.epoch

C28_LoadBeforePair ==
  out.op = "quote" =>
    /\ ctx = load_exchange_ctx(acct)
    /\ ~ctx.ok => out.res = ctx
    /\ out.res = Unsupported =>
         ctx.ok /\ <<out.args.input_mint, out.args.output_mint>> \notin SupportedPairs
    /\ ctx.ok /\ <<out.args.input_mint, out.args.output_mint>> \notin SupportedPairs =>
         out.res = Unsupported

C28_Witness ==
  /\ out.op = "quote"
  /\ out.args.input_mint = "SHYUSD"
  /\ out.args.output_mint = "HYUSD"
  /\ acct.sol_usd.ok
  /\ acct.xsol_pool.val.amount = 0
  /\ acct.shyusd_mint.val.supply > 0
  /\ shyusd_redeem(acct.shyusd_mint.val, acct.hyusd_pool.val, acct.xsol_pool.val,
                   acct.pool_config.val, out.args.amount).ok
  /\ ~ctx.ok
  /\ out.res = ctx

\* the quotes that charge a fee
FeeBearingOps ==
  {"hyusd_mint", "hyusd_redeem", "xsol_mint", "xsol_redeem", "hyusd_xsol_swap",
   "xsol_hyusd_swap", "shyusd_redeem", "shyusd_redeem_lst"}

\* the amount the fee of the last quote was extracted from: in_amount where the
\* fee is taken from the input, fee plus output where it is taken from the output
PreFeeAmount ==
  IF out.op \in {"hyusd_mint", "xsol_mint", "hyusd_xsol_swap"} THEN out.res.val.in_amount
  ELSE out.res.val.fee_amount + out.res.val.out_amount

\* one unit at the scale of the asset the fee of the last quote is in
FeeScale ==
  IF out.op \in {"hyusd_xsol_swap", "xsol_hyusd_swap", "shyusd_redeem"} THEN One6 ELSE One9

\* the fee percentage of the last quote is its fee over the pre-fee amount
PctOfPreFee ==
  /\ PreFeeAmount > 0
  /\ out.res.val.fee_pct = (out.res.val.fee_amount * FeeScale) \div PreFeeAmount
  /\ out.res.val.fee_pct <= FeeScale

\* C29: in every successful fee-bearing quote fee_pct is fee_amount divided by
\* the pre-fee amount (fee plus remainder), floored at the asset's scale, hence
\* at most 1; a quote whose pre-fee amount is 0 is an error
C29_FeePct == out.op \in FeeBearingOps /\ out.res.ok => PctOfPreFee

====
